---- MODULE Spec2Model ----
(***************************************************************************)
(* OVS Manager: the cache store / refresh controller behind the cache API  *)
(* of services/api.ts, and the topology builder of NetworkTopology.tsx     *)
(* with the port-device correlator of utils/vmMapping.ts.                  *)
(*                                                                         *)
(* Two specifications share the variables:                                 *)
(*   Spec      the cache store and refresh controller, driven by callers   *)
(*             of refresh / get / invalidate and of mutating operations;   *)
(*   SpecTopo  loadTopology applied to bounded cached inventories;         *)
(*   SpecMirror loadTopology applied to inventories with one mirror;       *)
(*   SpecParse parseTapName applied to the names of bounded interfaces.    *)
(***************************************************************************)
EXTENDS Integers, Sequences, FiniteSets, TLC

VARIABLES
    cache,       \* (host, kind) -> CacheEntry
    fetches,     \* sequence of remote fetches issued so far
    callers,     \* caller -> the call it made and what it observed
    clock,       \* logical time, advanced by every fetch completion
    bridges,     \* cached bridge records served to the topology view
    vms,         \* cached VM records served to the topology view
    containers,  \* cached container records served to the topology view
    loading,     \* NetworkTopology: loading flag
    nodes,       \* NetworkTopology: nodes state
    edges,       \* NetworkTopology: edges state
    tpc,         \* NetworkTopology: position of loadTopology
    formed,      \* vmMapping: the tap name handed to parseTapName and its parts
    parsedTap,   \* vmMapping: what parseTapName returned for it
    hdData,      \* HostDetail: the snapshot of bridges, mirrors, vms and containers shown
    hdLoading,   \* HostDetail: loading flag
    hdRefreshing,\* HostDetail: refreshing flag
    hdError,     \* HostDetail: error state
    hdpc,        \* HostDetail: position of loadData / handleRefresh
    hdHist,      \* HostDetail: what was shown when Refresh was clicked, and whether that refresh failed
    isRefreshing,\* NetworkTopology: isRefreshing flag
    rpc,         \* NetworkTopology: position of handleRefresh
    trHist,      \* NetworkTopology: what was rendered when Refresh was clicked, and whether that refresh failed
    mmMirrors,   \* MirrorManagement: the mirror list shown
    mmLoading,   \* MirrorManagement: loading flag
    mmIsRefreshing,\* MirrorManagement: isRefreshing flag
    mmSnackbar,  \* MirrorManagement: the last snackbar message
    mmMount,     \* MirrorManagement: position of the first loadMirrors
    mmCalls,     \* MirrorManagement: position of every handleRefresh call in flight
    selectedHost,\* NetworkTopology: selectedHost
    tvCalls,     \* NetworkTopology: the host captured by every loadTopology call in flight
    pmServer,    \* the ports the selected bridge has at the host
    pmBridges,   \* PortManagement: bridges, the port names of the selected bridge
    pmSelected,  \* PortManagement: selectedBridge is set
    pmPorts,     \* PortManagement: ports, the displayed list
    pmLoading,   \* PortManagement: loading
    pmIsRefreshing,\* PortManagement: isRefreshing
    pmSnackbar,  \* PortManagement: snackbar
    pmpc,        \* PortManagement: position of the running handler
    pmHeld,      \* PortManagement: bridges as captured by the running handler
    pmReqs,      \* PortManagement: loads in flight
    pmLast,      \* the operation whose bridge list arrived last, with no click or host change since
    cmMode,      \* CreateMirrorModal: mode
    cmBridgeName,\* CreateMirrorModal: bridgeName
    cmMirrorName,\* CreateMirrorModal: mirrorName
    cmSourcePorts,\* CreateMirrorModal: sourcePorts
    cmOutputPort,\* CreateMirrorModal: outputPort
    cmLoading,   \* CreateMirrorModal: loading
    cmError,     \* CreateMirrorModal: error
    cmpc,        \* CreateMirrorModal: open, creating (mirrorsApi.create in flight) or closed
    cmSent       \* CreateMirrorModal: the request body last handed to mirrorsApi.create

cacheVars == <<cache, fetches, callers, clock>>
topoVars == <<bridges, vms, containers, loading, nodes, edges, tpc>>
parseVars == <<formed, parsedTap>>
hostDetailVars == <<hdData, hdLoading, hdRefreshing, hdError, hdpc, hdHist>>
topoRefreshVars == <<isRefreshing, rpc, trHist>>
mirrorViewVars == <<mmMirrors, mmLoading, mmIsRefreshing, mmSnackbar, mmMount, mmCalls>>
topoSwitchVars == <<selectedHost, tvCalls>>
portViewVars == <<pmServer, pmBridges, pmSelected, pmPorts, pmLoading, pmIsRefreshing, pmSnackbar, pmpc, pmHeld, pmReqs, pmLast>>
modalVars == <<cmMode, cmBridgeName, cmMirrorName, cmSourcePorts, cmOutputPort, cmLoading, cmError, cmpc, cmSent>>
\* What the actions of one component leave alone.
notCache == <<topoVars, parseVars, hostDetailVars, topoRefreshVars, mirrorViewVars, topoSwitchVars, portViewVars, modalVars>>
notTopo == <<cacheVars, parseVars, hostDetailVars, topoRefreshVars, mirrorViewVars, topoSwitchVars, portViewVars, modalVars>>
notParse == <<cacheVars, topoVars, hostDetailVars, topoRefreshVars, mirrorViewVars, topoSwitchVars, portViewVars, modalVars>>
notHostDetail == <<cacheVars, topoVars, parseVars, topoRefreshVars, mirrorViewVars, topoSwitchVars, portViewVars, modalVars>>
notTopoRefresh == <<cacheVars, topoVars, parseVars, hostDetailVars, mirrorViewVars, topoSwitchVars, portViewVars, modalVars>>
notTopoViews == <<cacheVars, parseVars, hostDetailVars, mirrorViewVars, topoSwitchVars, portViewVars, modalVars>>
notMirrorView == <<cacheVars, topoVars, parseVars, hostDetailVars, topoRefreshVars, topoSwitchVars, portViewVars, modalVars>>
notTopoSwitch == <<cacheVars, parseVars, hostDetailVars, topoRefreshVars, mirrorViewVars, portViewVars, modalVars>>
notPortView == <<cacheVars, topoVars, parseVars, hostDetailVars, topoRefreshVars, mirrorViewVars, topoSwitchVars, modalVars>>
notModal == <<cacheVars, topoVars, parseVars, hostDetailVars, topoRefreshVars, mirrorViewVars, topoSwitchVars, portViewVars>>
vars == <<cache, fetches, callers, clock,
          bridges, vms, containers, loading, nodes, edges, tpc,
          formed, parsedTap,
          hdData, hdLoading, hdRefreshing, hdError, hdpc, hdHist,
          isRefreshing, rpc, trHist,
          mmMirrors, mmLoading, mmIsRefreshing, mmSnackbar, mmMount, mmCalls,
          selectedHost, tvCalls,
          pmServer, pmBridges, pmSelected, pmPorts, pmLoading, pmIsRefreshing, pmSnackbar, pmpc, pmHeld, pmReqs, pmLast,
          cmMode, cmBridgeName, cmMirrorName, cmSourcePorts, cmOutputPort, cmLoading, cmError, cmpc, cmSent>>

(***************************************************************************)
(* Bounds                                                                  *)
(***************************************************************************)
MaxCallers == 3   \* calls made on the cache
MaxIfaces == 3    \* interfaces configured on the guest under study
NumBridges == 3   \* cached bridges
MaxSnapshots == 2 \* distinct snapshots the backend serves to a view
MaxClicks == 2    \* handleRefresh calls of the mirror view in flight at once
MaxLoads == 3     \* loadTopology calls of the topology view in flight at once
MaxVmid == 1000   \* guest ids a tap name is formed from
MaxIndex == 10    \* interface numbers a tap name is formed from

(***************************************************************************)
(* Cache store and refresh controller                                      *)
(***************************************************************************)
\* Two hosts, and two of the four cache types of cacheApi.invalidate
\* ('bridges' | 'mirrors' | 'vms' | 'containers'): enough for "another kind
\* of the same host" and "the same kind of another host".
Hosts == {"hostA", "hostB"}
Kinds == {"bridges", "mirrors"}
Pairs == Hosts \X Kinds
Callers == 1..MaxCallers

\* Fetches are numbered from 1 in the order they are issued; NoFetch names none.
NoFetch == 0
NoPair == <<"none", "none">>

\* CacheEntry<T>: the value (named by the fetch that produced it), the
\* last-updated timestamp, the last-error and the last-attempt timestamp.
EmptyEntry == [value |-> NoFetch, updated |-> 0, lastError |-> NoFetch, lastAttempt |-> 0]

\* A caller: the call it made (op, pair), the clock when it called, the fetch
\* it waits for, the value cached when its mutation was applied, and what
\* the call returned to it (outcome, entry).
IdleCaller ==
    [op |-> "none", pair |-> NoPair, at |-> 0, fetch |-> NoFetch, before |-> NoFetch,
     status |-> "idle", outcome |-> "none", entry |-> EmptyEntry]

\* The fetches in flight for a pair.
InFlight(p) == {f \in 1..Len(fetches) : fetches[f].pair = p /\ fetches[f].status = "inflight"}

\* Mutant of MustFetch: every call issues a fetch of its own.
AlwaysFetch(p) == TRUE

\* refresh(host, kind): whether the call has to issue a remote fetch.
MustFetch(p) == InFlight(p) = {}

\* Mutant of SucceededEntry: the value is stored, the timestamps are not.
HalfUpdatedEntry(e, f, t) == [e EXCEPT !.value = f]

\* On fetch success the entry is replaced as a whole.
SucceededEntry(e, f, t) == [value |-> f, updated |-> t, lastError |-> NoFetch, lastAttempt |-> t]

\* Mutant of FailedEntry: a failed fetch blanks the value.
BlankedEntry(e, f, t) == [EmptyEntry EXCEPT !.lastError = f, !.lastAttempt = t]

\* On fetch failure the value stays; last-error and last-attempt are recorded.
FailedEntry(e, f, t) == [e EXCEPT !.lastError = f, !.lastAttempt = t]

\* Mutant of FailureTargets: a failure is recorded on every kind of the host.
FailWholeHost(p) == {q \in Pairs : q[1] = p[1]}

\* The entries a failed fetch of pair p records its failure on.
FailureTargets(p) == {p}

\* Mutant of InvalidatedEntry: only the error marker is cleared.
ErrorClearedEntry(e) == [e EXCEPT !.lastError = NoFetch]

\* invalidate(host, kind) clears the entry.
InvalidatedEntry(e) == EmptyEntry

\* Mutant of InvalidateTargets: every kind of the host is cleared.
InvalidateWholeHost(p) == {q \in Pairs : q[1] = p[1]}

\* The entries invalidate(host, kind) clears.
InvalidateTargets(p) == {p}

\* Mutant of MutatedEntry: a mutation leaves the cached entry in place.
KeptEntry(e) == e

\* The entry after a mutating operation of its pair succeeded.
MutatedEntry(e) == InvalidatedEntry(e)

\* get(host, kind): the current entry, or absent.
GetOutcome(e) == IF e.value = NoFetch THEN "absent" ELSE "hit"

\* A caller makes one call; callers are numbered in the order they call.
Fresh(c) ==
    /\ callers[c].op = "none"
    /\ IF c = 1 THEN TRUE ELSE callers[c - 1].op # "none"

\* Hosts and kinds are interchangeable names: the first call is taken to be
\* on FirstPair, every later call is on any pair.
FirstPair == <<"hostA", "bridges">>
FirstCall(c, p) == c = 1 => p = FirstPair

\* cacheApi.refreshBridges / refreshMirrors / refreshVMs / refreshContainers:
\* the caller starts the fetch of its pair, or joins the one in flight.
Refresh(c, p) ==
    /\ Fresh(c)
    /\ FirstCall(c, p)
    /\ IF MustFetch(p)
       THEN /\ fetches' = Append(fetches, [pair |-> p, status |-> "inflight",
                                           doneAt |-> 0])
            /\ callers' = [callers EXCEPT ![c] =
                   [IdleCaller EXCEPT !.op = "refresh", !.pair = p, !.at = clock,
                                      !.fetch = Len(fetches) + 1, !.status = "waiting"]]
       ELSE /\ fetches' = fetches
            /\ callers' = [callers EXCEPT ![c] =
                   [IdleCaller EXCEPT !.op = "refresh", !.pair = p, !.at = clock,
                                      !.fetch = CHOOSE f \in InFlight(p) : TRUE,
                                      !.status = "waiting"]]
    /\ UNCHANGED <<cache, clock>>
    /\ UNCHANGED notCache

\* What a caller receives when fetch f is over with entry e: the callers waiting
\* for f resume with the outcome of the fetch and the resulting entry.
Deliver(c, f, outcome, e) ==
    IF callers[c].status = "waiting" /\ callers[c].fetch = f
    THEN [callers[c] EXCEPT !.status = "done", !.outcome = outcome, !.entry = e]
    ELSE callers[c]

\* The remote fetch returns records: the entry is replaced.
FetchSucceed(f) ==
    /\ f \in 1..Len(fetches)
    /\ fetches[f].status = "inflight"
    /\ clock' = clock + 1
    /\ LET p == fetches[f].pair
           e == SucceededEntry(cache[p], f, clock + 1)
       IN /\ cache' = [cache EXCEPT ![p] = e]
          /\ fetches' = [fetches EXCEPT ![f] =
                 [pair |-> p, status |-> "ok", doneAt |-> clock + 1]]
          /\ callers' = [c \in Callers |-> Deliver(c, f, "ok", e)]
    /\ UNCHANGED notCache

\* The remote fetch fails (transport failure or unparsable output).
FetchFail(f) ==
    /\ f \in 1..Len(fetches)
    /\ fetches[f].status = "inflight"
    /\ clock' = clock + 1
    /\ LET p == fetches[f].pair
       IN /\ cache' = [q \in Pairs |->
                 IF q \in FailureTargets(p)
                 THEN FailedEntry(cache[q], f, clock + 1)
                 ELSE cache[q]]
          /\ fetches' = [fetches EXCEPT ![f] =
                 [pair |-> p, status |-> "failed", doneAt |-> clock + 1]]
          /\ callers' = [c \in Callers |->
                 Deliver(c, f, "failed", FailedEntry(cache[p], f, clock + 1))]
    /\ UNCHANGED notCache

\* A read-through get: on a miss it starts the fetch of its pair.
GetThrough(c, p) ==
    /\ Fresh(c)
    /\ FirstCall(c, p)
    /\ callers' = [callers EXCEPT ![c] =
           [IdleCaller EXCEPT !.op = "get", !.pair = p, !.at = clock, !.status = "done",
                              !.outcome = GetOutcome(cache[p]), !.entry = cache[p]]]
    /\ fetches' = IF GetOutcome(cache[p]) = "absent" /\ MustFetch(p)
                  THEN Append(fetches, [pair |-> p, status |-> "inflight", doneAt |-> 0])
                  ELSE fetches
    /\ UNCHANGED <<cache, clock>>
    /\ UNCHANGED notCache

\* bridgesApi.list / mirrorsApi.list / vmsApi.list / containersApi.list
Get(c, p) ==
    /\ Fresh(c)
    /\ FirstCall(c, p)
    /\ callers' = [callers EXCEPT ![c] =
           [IdleCaller EXCEPT !.op = "get", !.pair = p, !.at = clock, !.status = "done",
                              !.outcome = GetOutcome(cache[p]), !.entry = cache[p]]]
    /\ UNCHANGED <<cache, fetches, clock>>
    /\ UNCHANGED notCache

\* cacheApi.invalidate
Invalidate(c, p) ==
    /\ Fresh(c)
    /\ FirstCall(c, p)
    /\ cache' = [q \in Pairs |->
           IF q \in InvalidateTargets(p) THEN InvalidatedEntry(cache[q]) ELSE cache[q]]
    /\ callers' = [callers EXCEPT ![c] =
           [IdleCaller EXCEPT !.op = "invalidate", !.pair = p, !.at = clock,
                              !.status = "done", !.outcome = "ok"]]
    /\ UNCHANGED <<fetches, clock>>
    /\ UNCHANGED notCache

\* handleCreate / handleDelete: the mutating request succeeds. The affected
\* entry is invalidated and the handler goes on to reload the list. (A failed
\* request changes neither the cache nor the list the view holds.)
Mutate(c, p) ==
    /\ Fresh(c)
    /\ FirstCall(c, p)
    /\ cache' = [cache EXCEPT ![p] = MutatedEntry(cache[p])]
    /\ callers' = [callers EXCEPT ![c] =
           [IdleCaller EXCEPT !.op = "mutate", !.pair = p, !.at = clock,
                              !.before = cache[p].value, !.status = "listing"]]
    /\ UNCHANGED <<fetches, clock>>
    /\ UNCHANGED notCache

\* handleCreate / handleDelete: the list reload that follows a successful mutation.
Reload(c) ==
    /\ callers[c].status = "listing"
    /\ callers' = [callers EXCEPT ![c] =
           [callers[c] EXCEPT !.status = "done",
                              !.outcome = GetOutcome(cache[callers[c].pair]),
                              !.entry = cache[callers[c].pair]]]
    /\ UNCHANGED <<cache, fetches, clock>>
    /\ UNCHANGED notCache

(***************************************************************************)
(* Strings.  A string of the program is the sequence of its characters, so *)
(* that pattern matching, parseInt and template literals are computed.     *)
(***************************************************************************)
Digits == <<"0", "1", "2", "3", "4", "5", "6", "7", "8", "9">>
IsDigit(ch) == \E d \in 1..10 : Digits[d] = ch
DigitVal(ch) == (CHOOSE d \in 1..10 : Digits[d] = ch) - 1
AllDigits(s) == Len(s) > 0 /\ \A k \in 1..Len(s) : IsDigit(s[k])

\* parseInt(digits, 10) on a non-empty sequence of decimal digits.
RECURSIVE ParseInt(_)
ParseInt(s) ==
    IF Len(s) = 0 THEN 0
    ELSE 10 * ParseInt(SubSeq(s, 1, Len(s) - 1)) + DigitVal(s[Len(s)])

\* `${n}` for a non-negative integer n.
RECURSIVE Dec(_)
Dec(n) == IF n < 10 THEN <<Digits[n + 1]>> ELSE Dec(n \div 10) \o <<Digits[(n % 10) + 1]>>

\* `${x}` for an optional string x.
Undefined == <<"undefined">>
Template(x) == IF x = Undefined THEN <<"u", "n", "d", "e", "f", "i", "n", "e", "d">> ELSE x

TAP == <<"t", "a", "p">>
VETH == <<"v", "e", "t", "h">>
HasPrefix(s, pre) == Len(s) >= Len(pre) /\ SubSeq(s, 1, Len(pre)) = pre

\* name.match(/^<pre>(\d+)i(\d+)$/): the two captured groups, or NoMatch.
\* Digits never contain "i", so the first group ends at the first "i".
NoMatch == <<>>
Match(name, pre) ==
    IF ~HasPrefix(name, pre) THEN NoMatch
    ELSE LET rest == SubSeq(name, Len(pre) + 1, Len(name))
             is == {k \in 1..Len(rest) : rest[k] = "i"}
         IN IF is = {} THEN NoMatch
            ELSE LET k == CHOOSE j \in is : \A l \in is : j <= l
                     g1 == SubSeq(rest, 1, k - 1)
                     g2 == SubSeq(rest, k + 1, Len(rest))
                 IN IF AllDigits(g1) /\ AllDigits(g2) THEN <<g1, g2>> ELSE NoMatch

\* utils/vmMapping.ts parseTapName: { vmid, interfaceNum } or null.
Null == [null |-> TRUE]
\* A parser that reads one digit of the interface number.
parseTapNameOneDigit(tapName) ==
    LET match == Match(tapName, TAP)
    IN IF match # NoMatch
       THEN [vmid |-> ParseInt(match[1]), interfaceNum |-> DigitVal(match[2][1])]
       ELSE Null
parseTapName(tapName) ==
    LET match == Match(tapName, TAP)
    IN IF match # NoMatch
       THEN [vmid |-> ParseInt(match[1]), interfaceNum |-> ParseInt(match[2])]
       ELSE Null

\* vms.find(v => v.vmid === vmid), containers.find(c => c.ctid === ctid):
\* the first such record, or Null.
FindVM(vs, vmid) ==
    LET hits == {k \in 1..Len(vs) : vs[k].vmid = vmid}
    IN IF hits = {} THEN Null ELSE vs[CHOOSE k \in hits : \A l \in hits : k <= l]
FindCT(cs, ctid) ==
    LET hits == {k \in 1..Len(cs) : cs[k].ctid = ctid}
    IN IF hits = {} THEN Null ELSE cs[CHOOSE k \in hits : \A l \in hits : k <= l]

\* utils/vmMapping.ts findVMForPort: { vm, interface } or null.
findVMForPort(portName, vs) ==
    LET tapInfo == parseTapName(portName)
    IN IF tapInfo = Null THEN Null
       ELSE LET vm == FindVM(vs, tapInfo.vmid)
            IN IF vm = Null THEN Null
               ELSE LET hits == {k \in 1..Len(vm.interfaces) : vm.interfaces[k].tap = portName}
                    IN IF hits = {} THEN Null
                       ELSE [vm |-> vm,
                             interface |-> vm.interfaces[CHOOSE k \in hits : \A l \in hits : k <= l]]

\* BridgeManagement.tsx getPortMapping: { type, id, netid } or null.
getPortMapping(portName, vs, cs) ==
    LET vmMatch == Match(portName, TAP)
        ctMatch == Match(portName, VETH)
        vm == IF vmMatch = NoMatch THEN Null ELSE FindVM(vs, ParseInt(vmMatch[1]))
        container == IF ctMatch = NoMatch THEN Null ELSE FindCT(cs, ParseInt(ctMatch[1]))
    IN IF vm # Null
       THEN [type |-> "VM", id |-> vm.vmid, netid |-> <<"n", "e", "t">> \o vmMatch[2]]
       ELSE IF container # Null
            THEN [type |-> "CT", id |-> container.ctid, netid |-> <<"n", "e", "t">> \o ctMatch[2]]
            ELSE Null

(***************************************************************************)
(* NetworkTopology.tsx loadTopology: the topology built from the bridge,   *)
(* VM and container lists (bs, vs, cs).  Positions, colours and labels of  *)
(* nodes and edges are left out; an edge keeps its kind as its style.      *)
(***************************************************************************)
BridgeId(name) == <<"b", "r", "i", "d", "g", "e", "-">> \o Template(name)
VMId(vmid) == <<"v", "m", "-">> \o Dec(vmid)
CTId(ctid) == <<"c", "t", "-">> \o Dec(ctid)
LiveEdgeId(portName) == <<"e", "d", "g", "e", "-">> \o portName
StoppedEdgeId(tap) == <<"e", "d", "g", "e", "-", "s", "t", "o", "p", "p", "e", "d", "-">> \o tap
MirrorEdgeId(uuid, deviceId) == <<"m", "i", "r", "r", "o", "r", "-">> \o uuid \o <<"-">> \o deviceId
HandleIn(portName) == portName \o <<"-", "i", "n">>
StoppedUuid(tap) == <<"s", "t", "o", "p", "p", "e", "d", "-">> \o tap

\* vmMap.get(vmid), ctMap.get(ctid): the last record set for the id, or Null.
vmMapGet(vs, vmid) ==
    LET hits == {k \in 1..Len(vs) : vs[k].vmid = vmid}
    IN IF hits = {} THEN Null ELSE vs[CHOOSE k \in hits : \A l \in hits : k >= l]
ctMapGet(cs, ctid) ==
    LET hits == {k \in 1..Len(cs) : cs[k].ctid = ctid}
    IN IF hits = {} THEN Null ELSE cs[CHOOSE k \in hits : \A l \in hits : k >= l]

\* The interfaces of the guests whose status is 'stopped' or 'unknown', in
\* the order the nested forEach loops visit them.
RECURSIVE InactiveIfaces(_)
InactiveIfaces(gs) ==
    IF gs = <<>> THEN <<>>
    ELSE (IF Head(gs).status \in {"stopped", "unknown"} THEN Head(gs).interfaces ELSE <<>>)
         \o InactiveIfaces(Tail(gs))

\* Appends the interfaces configured for the bridge that portsList lacks.
RECURSIVE AddConfigured(_, _, _)
AddConfigured(portsList, ifaces, bridgeName) ==
    IF ifaces = <<>> THEN portsList
    ELSE LET iface == Head(ifaces)
             listed == \E k \in 1..Len(portsList) : portsList[k].name = iface.tap
         IN AddConfigured(
                IF iface.bridge = bridgeName /\ ~listed
                THEN Append(portsList, [name |-> iface.tap, uuid |-> StoppedUuid(iface.tap),
                                        status |-> "stopped"])
                ELSE portsList,
                Tail(ifaces), bridgeName)

\* allConfiguredPorts.get(bridge.name)
allConfiguredPorts(bridge, vs, cs) ==
    LET active == [k \in 1..Len(bridge.ports) |->
                      [name |-> bridge.ports[k].name, uuid |-> bridge.ports[k].uuid,
                       status |-> "undefined"]]
    IN AddConfigured(AddConfigured(active, InactiveIfaces(vs), bridge.name),
                     InactiveIfaces(cs), bridge.name)

BridgeNode(bridge, vs, cs) ==
    [id |-> BridgeId(bridge.name), type |-> "bridgeNode",
     data |-> [label |-> bridge.name, ports |-> allConfiguredPorts(bridge, vs, cs)]]
VMNode(vm, name) ==
    [id |-> VMId(vm.vmid), type |-> "vmNode",
     data |-> [vmid |-> vm.vmid, name |-> name, status |-> vm.status, interfaces |-> vm.interfaces]]
CTNode(ct, name) ==
    [id |-> CTId(ct.ctid), type |-> "containerNode",
     data |-> [ctid |-> ct.ctid, name |-> name, status |-> ct.status, interfaces |-> ct.interfaces]]

\* The body of bridge.ports.forEach in the node pass, for one port.
\* acc = [nodes, placedVMs, placedCTs].
PlaceVMOfPort(acc, port, vs) ==
    LET vmTapMatch == Match(port.name, TAP)
    IN IF vmTapMatch = NoMatch THEN acc
       ELSE LET vmid == ParseInt(vmTapMatch[1])
                vm == vmMapGet(vs, vmid)
            IN IF vm # Null /\ vmid \notin acc.placedVMs
               THEN [acc EXCEPT !.placedVMs = @ \cup {vmid},
                                !.nodes = Append(@, VMNode(vm, vm.name))]
               ELSE acc
PlaceCTOfPort(acc, port, cs) ==
    LET ctVethMatch == Match(port.name, VETH)
    IN IF ctVethMatch = NoMatch THEN acc
       ELSE LET ctid == ParseInt(ctVethMatch[1])
                ct == ctMapGet(cs, ctid)
            IN IF ct # Null /\ ctid \notin acc.placedCTs
               THEN [acc EXCEPT !.placedCTs = @ \cup {ctid},
                                !.nodes = Append(@, CTNode(ct, ct.name))]
               ELSE acc
RECURSIVE PlacePorts(_, _, _, _)
PlacePorts(acc, ports, vs, cs) ==
    IF ports = <<>> THEN acc
    ELSE PlacePorts(PlaceCTOfPort(PlaceVMOfPort(acc, Head(ports), vs), Head(ports), cs),
                    Tail(ports), vs, cs)

\* The node pass: every bridge's node, then the guests of its ports.
RECURSIVE PlaceBridges(_, _, _, _)
PlaceBridges(acc, rest, vs, cs) ==
    IF rest = <<>> THEN acc
    ELSE PlaceBridges(
             PlacePorts([acc EXCEPT !.nodes = Append(@, BridgeNode(Head(rest), vs, cs))],
                        Head(rest).ports, vs, cs),
             Tail(rest), vs, cs)
NodePass(bs, vs, cs) == PlaceBridges([nodes |-> <<>>, placedVMs |-> {}, placedCTs |-> {}], bs, vs, cs)

\* The live-connection edges of one port (VM connection, container connection).
\* An edge keyed by the device instead of the port name.
LiveEdgeKeyedByDevice(source, portName, bridge) ==
    [id |-> LiveEdgeId(source), source |-> source, sourceHandle |-> source,
     target |-> BridgeId(bridge.name), targetHandle |-> HandleIn(source), style |-> "live"]
LiveEdge(source, portName, bridge) ==
    [id |-> LiveEdgeId(portName), source |-> source, sourceHandle |-> portName,
     target |-> BridgeId(bridge.name), targetHandle |-> HandleIn(portName), style |-> "live"]
LiveEdgesOfPort(port, bridge, vs, cs, placedVMs, placedCTs) ==
    LET vmTapMatch == Match(port.name, TAP)
        ctVethMatch == Match(port.name, VETH)
        vmid == ParseInt(vmTapMatch[1])
        ctid == ParseInt(ctVethMatch[1])
    IN (IF vmTapMatch # NoMatch /\ vmMapGet(vs, vmid) # Null /\ vmid \in placedVMs
        THEN <<LiveEdge(VMId(vmid), port.name, bridge)>> ELSE <<>>)
       \o
       (IF ctVethMatch # NoMatch /\ ctMapGet(cs, ctid) # Null /\ ctid \in placedCTs
        THEN <<LiveEdge(CTId(ctid), port.name, bridge)>> ELSE <<>>)
RECURSIVE LiveEdges(_, _, _, _, _, _)
LiveEdges(ports, bridge, vs, cs, placedVMs, placedCTs) ==
    IF ports = <<>> THEN <<>>
    ELSE LiveEdgesOfPort(Head(ports), bridge, vs, cs, placedVMs, placedCTs)
         \o LiveEdges(Tail(ports), bridge, vs, cs, placedVMs, placedCTs)

\* The device a port name stands for in the mirror pass: its id if the name
\* matches a pattern and the guest is placed, NoDevice otherwise.
NoDevice == <<>>

\* Mutant of monitoringDeviceId: the device is taken from the name alone,
\* whether or not the guest is placed.
NamedDeviceId(output_port, placedVMs, placedCTs) ==
    IF Match(output_port, TAP) # NoMatch THEN VMId(ParseInt(Match(output_port, TAP)[1]))
    ELSE IF Match(output_port, VETH) # NoMatch THEN CTId(ParseInt(Match(output_port, VETH)[1]))
    ELSE NoDevice

monitoringDeviceId(output_port, placedVMs, placedCTs) ==
    LET vmTapMatch == Match(output_port, TAP)
        ctVethMatch == Match(output_port, VETH)
    IN IF vmTapMatch # NoMatch
       THEN (IF ParseInt(vmTapMatch[1]) \in placedVMs THEN VMId(ParseInt(vmTapMatch[1])) ELSE NoDevice)
       ELSE IF ctVethMatch # NoMatch
            THEN (IF ParseInt(ctVethMatch[1]) \in placedCTs
                  THEN CTId(ParseInt(ctVethMatch[1])) ELSE NoDevice)
            ELSE NoDevice

\* sourcePorts after visiting the port names in order (the select-all branch
\* visits the bridge's ports, the explicit branch the two selector lists).
RECURSIVE SourcePorts(_, _, _, _, _)
SourcePorts(sourcePorts, names, monitor, placedVMs, placedCTs) ==
    IF names = <<>> THEN sourcePorts
    ELSE LET portName == Head(names)
             deviceId == monitoringDeviceId(portName, placedVMs, placedCTs)
             found == \E k \in 1..Len(sourcePorts) :
                          sourcePorts[k].deviceId = deviceId /\ sourcePorts[k].portName = portName
         IN SourcePorts(
                IF deviceId # NoDevice /\ deviceId # monitor /\ ~found
                THEN Append(sourcePorts, [deviceId |-> deviceId, portName |-> portName])
                ELSE sourcePorts,
                Tail(names), monitor, placedVMs, placedCTs)

\* Mutant of ResolveMirror: the output device is not excluded.
ResolveMirrorWithSelf(mirror, bridge, placedVMs, placedCTs) ==
    IF mirror.output_port \in {Undefined, <<>>} THEN <<>>
    ELSE IF monitoringDeviceId(mirror.output_port, placedVMs, placedCTs) = NoDevice THEN <<>>
    ELSE SourcePorts(<<>>,
             IF mirror.select_all
             THEN [k \in 1..Len(bridge.ports) |-> bridge.ports[k].name]
             ELSE mirror.select_src_port \o mirror.select_dst_port,
             NoDevice, placedVMs, placedCTs)

\* The (source device, source port) pairs of a mirror of the bridge.
ResolveMirror(mirror, bridge, placedVMs, placedCTs) ==
    IF mirror.output_port \in {Undefined, <<>>} THEN <<>>
    ELSE LET monitor == monitoringDeviceId(mirror.output_port, placedVMs, placedCTs)
         IN IF monitor = NoDevice THEN <<>>
            ELSE SourcePorts(<<>>,
                     IF mirror.select_all
                     THEN [k \in 1..Len(bridge.ports) |-> bridge.ports[k].name]
                     ELSE mirror.select_src_port \o mirror.select_dst_port,
                     monitor, placedVMs, placedCTs)
MirrorEdges(mirror, bridge, placedVMs, placedCTs) ==
    LET sourcePorts == ResolveMirror(mirror, bridge, placedVMs, placedCTs)
    IN [k \in 1..Len(sourcePorts) |->
           [id |-> MirrorEdgeId(mirror.uuid, sourcePorts[k].deviceId),
            source |-> sourcePorts[k].deviceId, sourceHandle |-> sourcePorts[k].portName,
            target |-> monitoringDeviceId(mirror.output_port, placedVMs, placedCTs),
            targetHandle |-> mirror.output_port, style |-> "mirror"]]
RECURSIVE AllMirrorEdges(_, _, _, _)
AllMirrorEdges(mirrors, bridge, placedVMs, placedCTs) ==
    IF mirrors = <<>> THEN <<>>
    ELSE MirrorEdges(Head(mirrors), bridge, placedVMs, placedCTs)
         \o AllMirrorEdges(Tail(mirrors), bridge, placedVMs, placedCTs)

\* The edge pass: every bridge's live edges, then its mirror edges.
RECURSIVE EdgePass(_, _, _, _, _)
EdgePass(rest, vs, cs, placedVMs, placedCTs) ==
    IF rest = <<>> THEN <<>>
    ELSE LiveEdges(Head(rest).ports, Head(rest), vs, cs, placedVMs, placedCTs)
         \o AllMirrorEdges(Head(rest).mirrors, Head(rest), placedVMs, placedCTs)
         \o EdgePass(Tail(rest), vs, cs, placedVMs, placedCTs)

\* bridgeMap.get(bridgeName || ''): whether the bridge list has the name.
InBridgeMap(bs, bridgeName) == \E k \in 1..Len(bs) : bs[k].name = bridgeName

StoppedEdge(source, iface) ==
    [id |-> StoppedEdgeId(iface.tap), source |-> source, sourceHandle |-> iface.tap,
     target |-> BridgeId(iface.bridge), targetHandle |-> HandleIn(iface.tap), style |-> "stopped"]
StoppedEdges(source, ifaces) == [k \in 1..Len(ifaces) |-> StoppedEdge(source, ifaces[k])]
OrDefault(name, default) == IF name = <<>> THEN default ELSE name

\* Guests not placed by the node pass.  acc = [nodes, edges, placedVMs, placedCTs].
RECURSIVE StoppedVMs(_, _, _)
StoppedVMs(acc, rest, bs) ==
    IF rest = <<>> THEN acc
    ELSE LET vm == Head(rest)
             placed == [acc EXCEPT !.placedVMs = @ \cup {vm.vmid}]
         IN StoppedVMs(
                IF vm.vmid \notin acc.placedVMs /\ Len(vm.interfaces) > 0
                THEN IF InBridgeMap(bs, vm.interfaces[1].bridge)
                     THEN [placed EXCEPT
                              !.nodes = Append(@, VMNode(vm, OrDefault(vm.name, <<"V", "M", " ">> \o Dec(vm.vmid)))),
                              !.edges = @ \o StoppedEdges(VMId(vm.vmid), vm.interfaces)]
                     ELSE placed
                ELSE acc,
                Tail(rest), bs)
RECURSIVE StoppedCTs(_, _, _)
StoppedCTs(acc, rest, bs) ==
    IF rest = <<>> THEN acc
    ELSE LET ct == Head(rest)
             placed == [acc EXCEPT !.placedCTs = @ \cup {ct.ctid}]
         IN StoppedCTs(
                IF ct.ctid \notin acc.placedCTs /\ Len(ct.interfaces) > 0
                THEN IF InBridgeMap(bs, ct.interfaces[1].bridge)
                     THEN [placed EXCEPT
                              !.nodes = Append(@, CTNode(ct, OrDefault(ct.name, <<"C", "T", " ">> \o Dec(ct.ctid)))),
                              !.edges = @ \o StoppedEdges(CTId(ct.ctid), ct.interfaces)]
                     ELSE placed
                ELSE acc,
                Tail(rest), bs)

\* portStatusMap.get(name) || 'none'.  The map is filled from the bridges'
\* ports first and from the stopped guests' interfaces afterwards, so an
\* interface of a stopped guest wins.
OfStoppedGuest(name, gs) ==
    \E k \in 1..Len(gs) :
        /\ gs[k].status = "stopped"
        /\ \E i \in 1..Len(gs[k].interfaces) : gs[k].interfaces[i].tap = name
OnSomeBridge(name, bs) ==
    \E k \in 1..Len(bs) : \E i \in 1..Len(bs[k].ports) : bs[k].ports[i].name = name
RunningOrStopped(status) == IF status = "running" THEN "running" ELSE "stopped"
portStatus(name, bs, vs, cs) ==
    LET vmMatch == Match(name, TAP)
        ctMatch == Match(name, VETH)
    IN IF OfStoppedGuest(name, vs) \/ OfStoppedGuest(name, cs) THEN "stopped"
       ELSE IF ~OnSomeBridge(name, bs) THEN "none"
       ELSE IF vmMatch # NoMatch
            THEN (IF vmMapGet(vs, ParseInt(vmMatch[1])) # Null
                  THEN RunningOrStopped(vmMapGet(vs, ParseInt(vmMatch[1])).status) ELSE "none")
       ELSE IF ctMatch # NoMatch
            THEN (IF ctMapGet(cs, ParseInt(ctMatch[1])) # Null
                  THEN RunningOrStopped(ctMapGet(cs, ParseInt(ctMatch[1])).status) ELSE "none")
       ELSE "none"

\* The update of the bridge nodes with the port status.
WithPortStatus(node, bs, vs, cs) ==
    LET ports == node.data.ports
    IN IF node.type = "bridgeNode"
       THEN [node EXCEPT !.data.ports =
                [k \in 1..Len(ports) |->
                    [ports[k] EXCEPT !.status = portStatus(ports[k].name, bs, vs, cs)]]]
       ELSE node

\* newNodes and newEdges as loadTopology hands them to setNodes and setEdges.
BuildTopology(bs, vs, cs) ==
    LET pass1 == NodePass(bs, vs, cs)
        pass2 == [nodes |-> pass1.nodes,
                  edges |-> EdgePass(bs, vs, cs, pass1.placedVMs, pass1.placedCTs),
                  placedVMs |-> pass1.placedVMs, placedCTs |-> pass1.placedCTs]
        pass3 == StoppedCTs(StoppedVMs(pass2, vs, bs), cs, bs)
    IN [nodes |-> [k \in 1..Len(pass3.nodes) |-> WithPortStatus(pass3.nodes[k], bs, vs, cs)],
        edges |-> pass3.edges]

(***************************************************************************)
(* Cached inventories the topology view is served                          *)
(***************************************************************************)
Br(k) == <<"b", "r">> \o Dec(k)
TapName(vmid, idx) == TAP \o Dec(vmid) \o <<"i">> \o Dec(idx)
VethName(ctid, idx) == VETH \o Dec(ctid) \o <<"i">> \o Dec(idx)
NetId(idx) == <<"n", "e", "t">> \o Dec(idx)
ETH0 == <<"e", "t", "h", "0">>
PortRec(name) == [name |-> name, uuid |-> <<"u", "-">> \o name, interfaces |-> <<name>>]
Iface(tap, idx, bridge) == [netid |-> NetId(idx), tap |-> tap, bridge |-> bridge]

CachedBridges == {Br(k) : k \in 0..(NumBridges - 1)}
UncachedBridge == Br(9)
IfaceBridges == CachedBridges \cup {UncachedBridge}

\* The guest under study is VM 101: any list of up to MaxIfaces interfaces
\* tap101i0, tap101i1, ... where interface k is configured for bridge k of
\* its own, for br0 (so that interfaces share a bridge), or for a bridge that
\* is not cached.
IfaceChoices(k) == {Br(k - 1), Br(0), UncachedBridge}
IfaceLists ==
    UNION {{brs \in [1..n -> IfaceBridges] : \A k \in 1..n : brs[k] \in IfaceChoices(k)} :
              n \in 0..MaxIfaces}
StudyVM(status, brs) ==
    [vmid |-> 101, name |-> <<"w", "e", "b">>, status |-> status,
     interfaces |-> [k \in 1..Len(brs) |-> Iface(TapName(101, k - 1), k - 1, brs[k])]]

\* Where the port tap101i<k-1> is: on no bridge, on the bridge its interface
\* is configured for, or on another bridge (the next cached one).  A port
\* that no interface is configured for is on no bridge or on br0.
Places == {"absent", "home", "away"}
NextBridge(b) ==
    IF b \in CachedBridges
    THEN Br((ParseInt(SubSeq(b, 3, Len(b))) + 1) % NumBridges)
    ELSE Br(0)
PortBridge(k, brs, place) ==
    IF place = "absent" THEN NoDevice
    ELSE IF k <= Len(brs) /\ place = "home" THEN brs[k]
    ELSE IF k <= Len(brs) THEN NextBridge(brs[k])
    ELSE Br(0)
RECURSIVE StudyPorts(_, _, _, _)
StudyPorts(b, k, brs, places) ==
    IF k > MaxIfaces THEN <<>>
    ELSE (IF PortBridge(k, brs, places[k]) = b THEN <<PortRec(TapName(101, k - 1))>> ELSE <<>>)
         \o StudyPorts(b, k + 1, brs, places)

\* What else the host has: other guests, their ports, other ports, mirrors.
\* The inventories with extras are those where VM 101 has at most one interface.
NoExtra ==
    [vms |-> <<>>, cts |-> <<>>, ports |-> [b \in CachedBridges |-> <<>>], mirrors |-> <<>>]
CT101(status, n) ==
    [ctid |-> 101, name |-> <<"d", "b">>, status |-> status,
     interfaces |-> [k \in 1..n |-> Iface(VethName(101, k - 1), k - 1, Br(k - 1))]]
VM102(status) ==
    [vmid |-> 102, name |-> <<>>, status |-> status,
     interfaces |-> <<Iface(TapName(102, 0), 0, Br(0))>>]
MirrorAll ==
    [uuid |-> <<"m", "1">>, name |-> <<"s", "p", "a", "n">>, output_port |-> TapName(102, 0),
     select_all |-> TRUE, select_src_port |-> <<>>, select_dst_port |-> <<>>]
Extras ==
    { NoExtra,
      \* container 101 running, first port live, second port gone
      [NoExtra EXCEPT !.cts = <<CT101("running", 2)>>,
                      !.ports[Br(0)] = <<PortRec(VethName(101, 0))>>],
      \* container 101 and VM 102 stopped, no port of theirs on a bridge
      [NoExtra EXCEPT !.cts = <<CT101("stopped", 2)>>,
                      !.vms = <<VM102("stopped")>>],
      \* VM 102 running and the output of a select-all mirror of br0, which
      \* also has a physical port and the port of a deleted guest
      [NoExtra EXCEPT !.vms = <<VM102("running")>>,
                      !.ports[Br(0)] = <<PortRec(ETH0), PortRec(TapName(102, 0)),
                                         PortRec(TapName(999, 0))>>,
                      !.mirrors = <<MirrorAll>>] }

Statuses == {"running", "stopped", "unknown"}
Inventory(status, brs, places, extra) ==
    [bridges |-> [k \in 1..NumBridges |->
                     [name |-> Br(k - 1),
                      ports |-> StudyPorts(Br(k - 1), 1, brs, places) \o extra.ports[Br(k - 1)],
                      mirrors |-> IF k = 1 THEN extra.mirrors ELSE <<>>]],
     vms |-> <<StudyVM(status, brs)>> \o extra.vms,
     containers |-> extra.cts]

(***************************************************************************)
(* Cached inventories with a mirror: bridge br0 with one mirror, VMs 101,  *)
(* 102 and 103 and container 101, all running.  Port eth0 and the port of  *)
(* VM 101 are on the bridge; the other ports may be gone, VM 102 may be    *)
(* deleted or have lost its interface.                                     *)
(***************************************************************************)
RunningVM(vmid, n) ==
    [vmid |-> vmid, name |-> <<"v", "m">>, status |-> "running",
     interfaces |-> [k \in 1..n |-> Iface(TapName(vmid, k - 1), k - 1, Br(0))]]
GuestStates == {"deleted", "bare", "full"}
MirrorVMs(vm102) ==
    <<RunningVM(101, 1)>>
    \o (IF vm102 = "deleted" THEN <<>> ELSE <<RunningVM(102, IF vm102 = "bare" THEN 0 ELSE 1)>>)
    \o <<RunningVM(103, 2)>>
\* The optional ports of br0, in the order the bridge lists them.
OptionalPorts == <<TapName(102, 0), TapName(103, 0), TapName(103, 1), VethName(101, 0)>>
RECURSIVE Present(_, _)
Present(names, on) ==
    IF names = <<>> THEN <<>>
    ELSE (IF Head(names) \in on THEN <<PortRec(Head(names))>> ELSE <<>>) \o Present(Tail(names), on)
MirrorPorts(on) == <<PortRec(ETH0), PortRec(TapName(101, 0))>> \o Present(OptionalPorts, on)

OutputPorts == {Undefined, ETH0, TapName(102, 0), TapName(103, 0), VethName(101, 0)}
SourceLists ==
    {<<>>, <<TapName(101, 0), TapName(103, 1)>>, <<TapName(999, 0)>>,
     <<TapName(102, 0), VethName(101, 0)>>}
DestinationLists == {<<>>, <<TapName(101, 0)>>}
MirrorRec(output_port, select_all, src, dst) ==
    [uuid |-> <<"m", "1">>, name |-> <<"s", "p", "a", "n">>, output_port |-> output_port,
     select_all |-> select_all, select_src_port |-> src, select_dst_port |-> dst]
MirrorInventory(vm102, on, mirror) ==
    [bridges |-> <<[name |-> Br(0), ports |-> MirrorPorts(on), mirrors |-> <<mirror>>]>>,
     vms |-> MirrorVMs(vm102),
     containers |-> <<CT101("running", 1)>>]

\* Inventories where some port records of br0 carry no interface.
HollowNames == {TapName(101, 0), TapName(102, 0), VethName(101, 0)}
Hollowed(ports, hollow) ==
    [k \in 1..Len(ports) |->
        IF ports[k].name \in hollow THEN [ports[k] EXCEPT !.interfaces = <<>>] ELSE ports[k]]
HollowMirrors ==
    {MirrorRec(TapName(103, 0), TRUE, <<>>, <<>>),
     MirrorRec(TapName(102, 0), FALSE, <<TapName(101, 0), TapName(103, 1)>>, <<>>)}
HollowInventory(vm102, on, mirror, hollow) ==
    [bridges |-> <<[name |-> Br(0), ports |-> Hollowed(MirrorPorts(on), hollow),
                    mirrors |-> <<mirror>>]>>,
     vms |-> MirrorVMs(vm102),
     containers |-> <<CT101("running", 1)>>]

(***************************************************************************)
(* NetworkTopology.tsx: the view's loadTopology                            *)
(***************************************************************************)
\* setLoading(true) and the three list requests are sent.
LoadTopologyStart ==
    /\ tpc # "fetching"
    /\ loading' = TRUE
    /\ tpc' = "fetching"
    /\ UNCHANGED <<bridges, vms, containers, nodes, edges>>
    /\ UNCHANGED notTopo

\* The three lists arrive; the topology is built and shown.
LoadTopologyDone ==
    /\ tpc = "fetching"
    /\ LET built == BuildTopology(bridges, vms, containers)
       IN nodes' = built.nodes /\ edges' = built.edges
    /\ loading' = FALSE
    /\ tpc' = "done"
    /\ UNCHANGED <<bridges, vms, containers>>
    /\ UNCHANGED notTopo

\* One of the three requests fails: the catch logs, the finally clears loading.
LoadTopologyFail ==
    /\ tpc = "fetching"
    /\ loading' = FALSE
    /\ tpc' = "failed"
    /\ UNCHANGED <<bridges, vms, containers, nodes, edges>>
    /\ UNCHANGED notTopo

InitCache ==
    /\ cache = [p \in Pairs |-> EmptyEntry]
    /\ fetches = <<>>
    /\ callers = [c \in Callers |-> IdleCaller]
    /\ clock = 0

\* No tap name has been handed to the parser.
NotFormed == [name |-> <<>>]
NotParsed == [parsed |-> FALSE]
InitParseIdle ==
    /\ formed = NotFormed
    /\ parsedTap = NotParsed

\* HostDetail.tsx: the state after useState (lines 38-48), before the effect.
NoSnapshot == 0
NoError == [null |-> TRUE]
NoRefreshYet == [clicked |-> FALSE]
InitHostDetailIdle ==
    /\ hdData = NoSnapshot
    /\ hdLoading = TRUE
    /\ hdRefreshing = FALSE
    /\ hdError = NoError
    /\ hdpc = "unmounted"
    /\ hdHist = NoRefreshYet

InitTopoRefreshIdle ==
    /\ isRefreshing = FALSE
    /\ rpc = "idle"
    /\ trHist = NoRefreshYet

\* MirrorManagement.tsx: the state after useState (lines 49-78).
RefreshCalls == 1..MaxClicks
NoSnackbar == [open |-> FALSE]
InitMirrorViewIdle ==
    /\ mmMirrors = NoSnapshot
    /\ mmLoading = FALSE
    /\ mmIsRefreshing = FALSE
    /\ mmSnackbar = NoSnackbar
    /\ mmMount = "unmounted"
    /\ mmCalls = [c \in RefreshCalls |-> "none"]

\* NetworkTopology.tsx: useState('') for selectedHost, no call in flight.
LoadCalls == 1..MaxLoads
NoHost == ""
InitTopoSwitchIdle ==
    /\ selectedHost = NoHost
    /\ tvCalls = [c \in LoadCalls |-> NoHost]

\* PortManagement.tsx: the state after useState (lines 43-49, 88), before the effects.
NothingHeld == [bridges |-> <<>>, sel |-> FALSE, name |-> ""]
InitPortViewIdle ==
    /\ pmServer = <<>>
    /\ pmBridges = <<>>
    /\ pmSelected = FALSE
    /\ pmPorts = <<>>
    /\ pmLoading = FALSE
    /\ pmIsRefreshing = FALSE
    /\ pmSnackbar = NoSnackbar
    /\ pmpc = "unmounted"
    /\ pmHeld = NothingHeld
    /\ pmReqs = <<>>
    /\ pmLast = "none"

\* CreateMirrorModal: the state after useState (lines 26-32); '' is the empty sequence.
NothingSent == [sent |-> FALSE]
InitModalIdle ==
    /\ cmMode = "manual"
    /\ cmBridgeName = <<>>
    /\ cmMirrorName = <<>>
    /\ cmSourcePorts = <<>>
    /\ cmOutputPort = <<>>
    /\ cmLoading = FALSE
    /\ cmError = NoError
    /\ cmpc = "open"
    /\ cmSent = NothingSent

\* No other component has been mounted.
InitViewsIdle ==
    /\ InitHostDetailIdle
    /\ InitTopoRefreshIdle
    /\ InitMirrorViewIdle
    /\ InitTopoSwitchIdle
    /\ InitPortViewIdle
    /\ InitModalIdle

InitTopoIdle ==
    /\ bridges = <<>>
    /\ vms = <<>>
    /\ containers = <<>>
    /\ loading = FALSE
    /\ nodes = <<>>
    /\ edges = <<>>
    /\ tpc = "idle"

Init == InitCache /\ InitTopoIdle /\ InitParseIdle /\ InitViewsIdle

Next ==
    \/ \E c \in Callers, p \in Pairs : Refresh(c, p)
    \/ \E f \in 1..MaxCallers : FetchSucceed(f)
    \/ \E f \in 1..MaxCallers : FetchFail(f)
    \/ \E c \in Callers, p \in Pairs : Get(c, p)
    \/ \E c \in Callers, p \in Pairs : Invalidate(c, p)
    \/ \E c \in Callers, p \in Pairs : Mutate(c, p)
    \/ \E c \in Callers : Reload(c)

Spec == Init /\ [][Next]_vars

InitTopo ==
    /\ InitCache
    /\ \E status \in Statuses, brs \in IfaceLists, places \in [1..MaxIfaces -> Places],
          extra \in Extras :
           LET inv == Inventory(status, brs, places, extra)
           IN /\ \A k \in 1..MaxIfaces : k > Len(brs) => places[k] # "away"
              /\ extra = NoExtra \/ Len(brs) <= 1
              /\ bridges = inv.bridges
              /\ vms = inv.vms
              /\ containers = inv.containers
    /\ loading = FALSE
    /\ nodes = <<>>
    /\ edges = <<>>
    /\ tpc = "idle"
    /\ InitParseIdle
    /\ InitViewsIdle

NextTopo ==
    \/ LoadTopologyStart
    \/ LoadTopologyDone
    \/ LoadTopologyFail

SpecTopo == InitTopo /\ [][NextTopo]_vars

InitMirror ==
    /\ InitCache
    /\ \E vm102 \in GuestStates, on \in SUBSET {OptionalPorts[k] : k \in 1..Len(OptionalPorts)},
          output_port \in OutputPorts, select_all \in BOOLEAN,
          src \in SourceLists, dst \in DestinationLists :
           LET inv == MirrorInventory(vm102, on, MirrorRec(output_port, select_all, src, dst))
           IN /\ select_all => src = <<>> /\ dst = <<>>
              /\ bridges = inv.bridges
              /\ vms = inv.vms
              /\ containers = inv.containers
    /\ loading = FALSE
    /\ nodes = <<>>
    /\ edges = <<>>
    /\ tpc = "idle"
    /\ InitParseIdle
    /\ InitViewsIdle

SpecMirror == InitMirror /\ [][NextTopo]_vars

InitPorts ==
    /\ InitCache
    /\ \E vm102 \in {"bare", "full"},
          on \in SUBSET {OptionalPorts[k] : k \in 1..Len(OptionalPorts)},
          mirror \in HollowMirrors, hollow \in SUBSET HollowNames :
           LET inv == HollowInventory(vm102, on, mirror, hollow)
           IN /\ hollow \subseteq on \cup {TapName(101, 0)}
              /\ bridges = inv.bridges
              /\ vms = inv.vms
              /\ containers = inv.containers
    /\ loading = FALSE
    /\ nodes = <<>>
    /\ edges = <<>>
    /\ tpc = "idle"
    /\ InitParseIdle
    /\ InitViewsIdle

SpecPorts == InitPorts /\ [][NextTopo]_vars

(***************************************************************************)
(* utils/vmMapping.ts: parseTapName applied to `tap${vmid}i${index}`       *)
(***************************************************************************)
\* A caller hands the name formed from a guest id and an interface number.
ParseTap ==
    /\ parsedTap = NotParsed
    /\ formed # NotFormed
    /\ parsedTap' = parseTapName(formed.name)
    /\ UNCHANGED formed
    /\ UNCHANGED notParse

InitParse ==
    /\ InitCache
    /\ InitTopoIdle
    /\ \E vmid \in 0..MaxVmid, index \in 0..MaxIndex :
           formed = [vmid |-> vmid, index |-> index, name |-> TapName(vmid, index)]
    /\ parsedTap = NotParsed
    /\ InitViewsIdle

NextParse == ParseTap

SpecParse == InitParse /\ [][NextParse]_vars

(***************************************************************************)
(* HostDetail.tsx: loadData and handleRefresh                              *)
(***************************************************************************)
Snapshots == 1..MaxSnapshots
LoadFailed == [message |-> "Failed to load data"]
RefreshFailed == [message |-> "Failed to refresh data"]
Clicked(shown) == [clicked |-> TRUE, before |-> shown, failed |-> FALSE]

\* useEffect [hostId]: loadData is called, the four lists are requested.
HDMount ==
    /\ hdpc = "unmounted"
    /\ hdLoading' = TRUE
    /\ hdError' = NoError
    /\ hdpc' = "mount"
    /\ UNCHANGED <<hdData, hdRefreshing, hdHist>>
    /\ UNCHANGED notHostDetail

\* loadData: the four lists arrive and are set; finally clears loading.
HDLoadOk(snapshot) ==
    /\ hdpc \in {"mount", "load"}
    /\ hdData' = snapshot
    /\ hdLoading' = FALSE
    /\ hdpc' = IF hdpc = "mount" THEN "idle" ELSE "queried"
    /\ UNCHANGED <<hdRefreshing, hdError, hdHist>>
    /\ UNCHANGED notHostDetail

\* loadData: a request fails; the catch sets the error, finally clears loading.
HDLoadFail ==
    /\ hdpc \in {"mount", "load"}
    /\ hdError' = LoadFailed
    /\ hdLoading' = FALSE
    /\ hdpc' = IF hdpc = "mount" THEN "idle" ELSE "queried"
    /\ hdHist' = IF hdpc = "load" THEN [hdHist EXCEPT !.failed = TRUE] ELSE hdHist
    /\ UNCHANGED <<hdData, hdRefreshing>>
    /\ UNCHANGED notHostDetail

\* handleRefresh: the Refresh button (rendered when not loading, disabled
\* while refreshing) is clicked; hostsApi.refresh is sent.
HDRefreshClick ==
    /\ hdpc = "idle"
    /\ ~hdLoading
    /\ ~hdRefreshing
    /\ hdRefreshing' = TRUE
    /\ hdError' = NoError
    /\ hdpc' = "refresh"
    /\ hdHist' = Clicked(hdData)
    /\ UNCHANGED <<hdData, hdLoading>>
    /\ UNCHANGED notHostDetail

\* handleRefresh: hostsApi.refresh resolves; loadData is called.
HDRefreshOk ==
    /\ hdpc = "refresh"
    /\ hdLoading' = TRUE
    /\ hdError' = NoError
    /\ hdpc' = "load"
    /\ UNCHANGED <<hdData, hdRefreshing, hdHist>>
    /\ UNCHANGED notHostDetail

\* A handler whose failure path does not clear refreshing.
HDRefreshFailStuck ==
    /\ hdpc = "refresh"
    /\ hdError' = RefreshFailed
    /\ hdpc' = "idle"
    /\ hdHist' = [hdHist EXCEPT !.failed = TRUE]
    /\ UNCHANGED <<hdData, hdLoading, hdRefreshing>>
    /\ UNCHANGED notHostDetail

\* handleRefresh: hostsApi.refresh rejects; catch sets the error and finally
\* clears refreshing.
HDRefreshFail ==
    /\ hdpc = "refresh"
    /\ hdError' = RefreshFailed
    /\ hdRefreshing' = FALSE
    /\ hdpc' = "idle"
    /\ hdHist' = [hdHist EXCEPT !.failed = TRUE]
    /\ UNCHANGED <<hdData, hdLoading>>
    /\ UNCHANGED notHostDetail

\* handleRefresh: loadLastQueried settles (its own catch swallows a failure);
\* finally clears refreshing.
HDLastQueried ==
    /\ hdpc = "queried"
    /\ hdRefreshing' = FALSE
    /\ hdpc' = "idle"
    /\ UNCHANGED <<hdData, hdLoading, hdError, hdHist>>
    /\ UNCHANGED notHostDetail

NextHostDetail ==
    \/ HDMount
    \/ \E snapshot \in Snapshots : HDLoadOk(snapshot)
    \/ HDLoadFail
    \/ HDRefreshClick
    \/ HDRefreshOk
    \/ HDRefreshFail
    \/ HDLastQueried

(***************************************************************************)
(* NetworkTopology.tsx: handleRefresh                                      *)
(***************************************************************************)
\* What the view renders: the "Updating..." note, the spinner, the graph.
TopologyRendering ==
    [updating |-> isRefreshing, spinner |-> loading, nodes |-> nodes, edges |-> edges]

\* The inventories the backend serves before and after a cache refresh.
RefreshInventories ==
    {Inventory(status, <<Br(0)>>, [k \in 1..MaxIfaces |-> IF k = 1 THEN place ELSE "absent"], NoExtra) :
        status \in {"running", "stopped"}, place \in {"absent", "home"}}

\* The Refresh button (disabled while loading) is clicked: the three cache
\* refreshes are sent.  One handleRefresh runs at a time.
TRClick ==
    /\ rpc = "idle"
    /\ ~loading
    /\ isRefreshing' = TRUE
    /\ rpc' = "refresh"
    /\ trHist' = Clicked(TopologyRendering)
    /\ UNCHANGED notTopoRefresh

\* One of the three cache refreshes rejects: the catch logs, finally clears
\* isRefreshing.
TRRefreshFail ==
    /\ rpc = "refresh"
    /\ isRefreshing' = FALSE
    /\ rpc' = "idle"
    /\ trHist' = [trHist EXCEPT !.failed = TRUE]
    /\ UNCHANGED notTopoRefresh

\* The three cache refreshes resolve, the backend now serves inv, and
\* loadTopology is called: setLoading(true), the three lists are requested.
TRRefreshOk(inv) ==
    /\ rpc = "refresh"
    /\ tpc # "fetching"
    /\ bridges' = inv.bridges
    /\ vms' = inv.vms
    /\ containers' = inv.containers
    /\ loading' = TRUE
    /\ tpc' = "fetching"
    /\ rpc' = "load"
    /\ UNCHANGED <<nodes, edges, isRefreshing, trHist>>
    /\ UNCHANGED notTopoViews

\* loadTopology has returned (it swallows its own failure); finally clears
\* isRefreshing.
TRFinish ==
    /\ rpc = "load"
    /\ tpc \in {"done", "failed"}
    /\ isRefreshing' = FALSE
    /\ rpc' = "idle"
    /\ trHist' = [trHist EXCEPT !.failed = (tpc = "failed")]
    /\ UNCHANGED notTopoRefresh

NextTopoRefresh ==
    \/ TRClick
    \/ TRRefreshFail
    \/ \E inv \in RefreshInventories : TRRefreshOk(inv)
    \/ LoadTopologyDone
    \/ LoadTopologyFail
    \/ TRFinish

\* The topology view is loading its host for the first time; the host detail
\* view is about to mount.
InitRefresh ==
    /\ InitCache
    /\ InitParseIdle
    /\ InitHostDetailIdle
    /\ InitTopoRefreshIdle
    /\ InitMirrorViewIdle
    /\ InitTopoSwitchIdle
    /\ InitPortViewIdle
    /\ InitModalIdle
    /\ \E inv \in RefreshInventories :
           /\ bridges = inv.bridges
           /\ vms = inv.vms
           /\ containers = inv.containers
    /\ nodes = <<>>
    /\ edges = <<>>
    /\ loading = TRUE
    /\ tpc = "fetching"

NextRefresh == NextHostDetail \/ NextTopoRefresh

SpecRefresh == InitRefresh /\ [][NextRefresh]_vars

(***************************************************************************)
(* NetworkTopology.tsx: host selection and the loadTopology calls it starts *)
(***************************************************************************)
\* The lists the backend serves for each host.
HostData(h) ==
    IF h = "hostA"
    THEN Inventory("running", <<Br(0)>>, [k \in 1..MaxIfaces |-> IF k = 1 THEN "home" ELSE "absent"], NoExtra)
    ELSE Inventory("stopped", <<Br(1)>>, [k \in 1..MaxIfaces |-> "absent"], NoExtra)
FreeLoad(c) == tvCalls[c] = NoHost /\ \A d \in LoadCalls : d < c => tvCalls[d] # NoHost

\* The first host is set by loadHosts, or another host is picked in the
\* Select; the effect on selectedHost calls loadTopology, which captures the
\* host, sets loading and sends the three list requests.
SelectHost(h, c) ==
    /\ h # selectedHost
    /\ FreeLoad(c)
    /\ selectedHost' = h
    /\ tvCalls' = [tvCalls EXCEPT ![c] = h]
    /\ loading' = TRUE
    /\ tpc' = "fetching"
    /\ UNCHANGED <<bridges, vms, containers, nodes, edges>>
    /\ UNCHANGED notTopoSwitch

\* The three lists of call c arrive: the topology of the host the call
\* captured is built and set; finally clears loading.
LoadArrive(c) ==
    /\ tvCalls[c] # NoHost
    /\ LET data == HostData(tvCalls[c])
           built == BuildTopology(data.bridges, data.vms, data.containers)
       IN /\ bridges' = data.bridges
          /\ vms' = data.vms
          /\ containers' = data.containers
          /\ nodes' = built.nodes
          /\ edges' = built.edges
    /\ loading' = FALSE
    /\ tpc' = "done"
    /\ tvCalls' = [tvCalls EXCEPT ![c] = NoHost]
    /\ UNCHANGED selectedHost
    /\ UNCHANGED notTopoSwitch

\* A request of call c fails: the catch logs, finally clears loading.
LoadReject(c) ==
    /\ tvCalls[c] # NoHost
    /\ loading' = FALSE
    /\ tpc' = "failed"
    /\ tvCalls' = [tvCalls EXCEPT ![c] = NoHost]
    /\ UNCHANGED <<bridges, vms, containers, nodes, edges, selectedHost>>
    /\ UNCHANGED notTopoSwitch

NextSwitch ==
    \/ \E h \in Hosts, c \in LoadCalls : SelectHost(h, c)
    \/ \E c \in LoadCalls : LoadArrive(c)
    \/ \E c \in LoadCalls : LoadReject(c)

InitSwitch ==
    /\ InitCache
    /\ InitTopoIdle
    /\ InitParseIdle
    /\ InitViewsIdle

SpecSwitch == InitSwitch /\ [][NextSwitch]_vars

(***************************************************************************)
(* MirrorManagement.tsx: loadMirrors and handleRefresh                     *)
(***************************************************************************)
Snack(message, severity) == [open |-> TRUE, message |-> message, severity |-> severity]
\* The first free slot: calls are told apart by the order of their clicks only.
FreeCall(c) == mmCalls[c] = "none" /\ \A d \in RefreshCalls : d < c => mmCalls[d] # "none"

\* useEffect [selectedHost]: loadMirrors is called.
MMMount ==
    /\ mmMount = "unmounted"
    /\ mmLoading' = TRUE
    /\ mmMount' = "loading"
    /\ UNCHANGED <<mmMirrors, mmIsRefreshing, mmSnackbar, mmCalls>>
    /\ UNCHANGED notMirrorView

\* The first loadMirrors settles.
MMMountLoadOk(snapshot) ==
    /\ mmMount = "loading"
    /\ mmMirrors' = snapshot
    /\ mmLoading' = FALSE
    /\ mmMount' = "loaded"
    /\ UNCHANGED <<mmIsRefreshing, mmSnackbar, mmCalls>>
    /\ UNCHANGED notMirrorView

MMMountLoadFail ==
    /\ mmMount = "loading"
    /\ mmSnackbar' = Snack("Failed to load mirrors", "error")
    /\ mmLoading' = FALSE
    /\ mmMount' = "loaded"
    /\ UNCHANGED <<mmMirrors, mmIsRefreshing, mmCalls>>
    /\ UNCHANGED notMirrorView

\* handleRefresh: the Refresh button (disabled only without a host) is
\* clicked; setIsRefreshing(true), cacheApi.refreshMirrors is sent.
MMRefreshClick(c) ==
    /\ mmMount # "unmounted"
    /\ FreeCall(c)
    /\ mmIsRefreshing' = TRUE
    /\ mmCalls' = [mmCalls EXCEPT ![c] = "refresh"]
    /\ UNCHANGED <<mmMirrors, mmLoading, mmSnackbar, mmMount>>
    /\ UNCHANGED notMirrorView

\* handleRefresh: refreshMirrors resolves; loadMirrors is called.
MMRefreshOk(c) ==
    /\ mmCalls[c] = "refresh"
    /\ mmLoading' = TRUE
    /\ mmCalls' = [mmCalls EXCEPT ![c] = "load"]
    /\ UNCHANGED <<mmMirrors, mmIsRefreshing, mmSnackbar, mmMount>>
    /\ UNCHANGED notMirrorView

\* handleRefresh: refreshMirrors rejects; catch shows the error, finally
\* clears isRefreshing.
MMRefreshFail(c) ==
    /\ mmCalls[c] = "refresh"
    /\ mmSnackbar' = Snack("Failed to refresh mirrors", "error")
    /\ mmIsRefreshing' = FALSE
    /\ mmCalls' = [mmCalls EXCEPT ![c] = "none"]
    /\ UNCHANGED <<mmMirrors, mmLoading, mmMount>>
    /\ UNCHANGED notMirrorView

\* handleRefresh: loadMirrors sets the list; handleRefresh shows success and
\* clears isRefreshing.
MMLoadOk(c, snapshot) ==
    /\ mmCalls[c] = "load"
    /\ mmMirrors' = snapshot
    /\ mmLoading' = FALSE
    /\ mmSnackbar' = Snack("Mirrors refreshed successfully", "success")
    /\ mmIsRefreshing' = FALSE
    /\ mmCalls' = [mmCalls EXCEPT ![c] = "none"]
    /\ UNCHANGED mmMount
    /\ UNCHANGED notMirrorView

\* handleRefresh: loadMirrors fails and swallows the failure; handleRefresh
\* goes on to show success and clears isRefreshing.
MMLoadFail(c) ==
    /\ mmCalls[c] = "load"
    /\ mmLoading' = FALSE
    /\ mmSnackbar' = Snack("Mirrors refreshed successfully", "success")
    /\ mmIsRefreshing' = FALSE
    /\ mmCalls' = [mmCalls EXCEPT ![c] = "none"]
    /\ UNCHANGED <<mmMirrors, mmMount>>
    /\ UNCHANGED notMirrorView

NextMirrorView ==
    \/ MMMount
    \/ \E snapshot \in Snapshots : MMMountLoadOk(snapshot)
    \/ MMMountLoadFail
    \/ \E c \in RefreshCalls : MMRefreshClick(c)
    \/ \E c \in RefreshCalls : MMRefreshOk(c)
    \/ \E c \in RefreshCalls : MMRefreshFail(c)
    \/ \E c \in RefreshCalls, snapshot \in Snapshots : MMLoadOk(c, snapshot)
    \/ \E c \in RefreshCalls : MMLoadFail(c)

InitMirrorView ==
    /\ InitCache
    /\ InitTopoIdle
    /\ InitParseIdle
    /\ InitViewsIdle

SpecMirrorView == InitMirrorView /\ [][NextMirrorView]_vars

(***************************************************************************)
(* The refreshes of the host detail view and of the mirror view, with      *)
(* every request sent by a handler eventually answered or failed.          *)
(***************************************************************************)
InitSettle ==
    /\ InitCache
    /\ InitTopoIdle
    /\ InitParseIdle
    /\ InitViewsIdle

NextSettle == NextHostDetail \/ NextMirrorView

\* A request that was sent settles: its promise resolves or rejects, and the
\* continuation of the handler awaiting it runs.  Clicks are not forced.
FairSettle ==
    /\ WF_vars((\E snapshot \in Snapshots : HDLoadOk(snapshot)) \/ HDLoadFail)
    /\ WF_vars(HDRefreshOk \/ HDRefreshFail)
    /\ WF_vars(HDLastQueried)
    /\ WF_vars((\E snapshot \in Snapshots : MMMountLoadOk(snapshot)) \/ MMMountLoadFail)
    /\ \A c \in RefreshCalls : WF_vars(MMRefreshOk(c) \/ MMRefreshFail(c))
    /\ \A c \in RefreshCalls :
           WF_vars((\E snapshot \in Snapshots : MMLoadOk(c, snapshot)) \/ MMLoadFail(c))

SpecSettle == InitSettle /\ [][NextSettle]_vars /\ FairSettle


(***************************************************************************)
(* Claims about the cache store and refresh controller (under Spec)        *)
(***************************************************************************)
Done(c) == callers[c].status = "done"
Reads(c) == Done(c) /\ callers[c].op \in {"get", "mutate", "refresh"}

\* Caller c2 called refresh on the pair of c1's refresh while the fetch that
\* c1 waits (or waited) for was still in flight.
Overlap(c1, c2) ==
    /\ c1 < c2
    /\ callers[c1].op = "refresh"
    /\ callers[c2].op = "refresh"
    /\ callers[c1].pair = callers[c2].pair
    /\ \/ fetches[callers[c1].fetch].status = "inflight"
       \/ fetches[callers[c1].fetch].doneAt > callers[c2].at

\* C1: callers that invoke refresh(host, kind) while a fetch of that pair is in
\* flight share that one fetch (no second fetch is issued, at most one fetch per
\* pair is ever in flight) and observe the same outcome and the same entry.
C1_SingleFlight ==
    /\ \A p \in Pairs : Cardinality(InFlight(p)) <= 1
    /\ \A c1, c2 \in Callers :
           Overlap(c1, c2) =>
               /\ callers[c2].fetch = callers[c1].fetch
               /\ callers[c1].status = callers[c2].status
               /\ callers[c1].outcome = callers[c2].outcome
               /\ callers[c1].entry = callers[c2].entry

C1_Witness ==
    \E c1, c2 \in Callers :
        /\ Overlap(c1, c2)
        /\ Done(c1) /\ Done(c2)
        /\ callers[c1].fetch = callers[c2].fetch

\* An entry is whole: its value is the result of one successfully completed
\* fetch of its own pair and its last-updated timestamp is that fetch's.
EntryWhole(e, p) ==
    e.value # NoFetch =>
        /\ e.value \in 1..Len(fetches)
        /\ fetches[e.value].pair = p
        /\ fetches[e.value].status = "ok"
        /\ e.updated = fetches[e.value].doneAt

\* The value of pair p is replaced in this step.
Replaced(p) == cache'[p].value # cache[p].value /\ cache'[p].value # NoFetch

\* C2: every entry in the cache and every entry a reader holds is the whole
\* result of one successfully completed fetch of its pair (value and timestamp
\* of the same fetch), and a value is replaced only in the step in which the
\* fetch that produced it completes successfully.
C2_AtomicReplace ==
    /\ [](/\ \A p \in Pairs : EntryWhole(cache[p], p)
          /\ \A c \in Callers : Reads(c) => EntryWhole(callers[c].entry, callers[c].pair))
    /\ [][\A p \in Pairs :
             Replaced(p) =>
                 /\ fetches[cache'[p].value].status = "inflight"
                 /\ fetches'[cache'[p].value].status = "ok"
                 /\ fetches[cache'[p].value].pair = p]_vars

\* A reader still holds the value it obtained before a later refresh replaced it.
C2_Witness ==
    \E c \in Callers :
        /\ callers[c].op = "get"
        /\ callers[c].outcome = "hit"
        /\ cache[callers[c].pair].value \notin {NoFetch, callers[c].entry.value}

\* Fetch f fails in this step.
Fails(f) ==
    /\ f \in 1..Len(fetches)
    /\ fetches[f].status = "inflight"
    /\ fetches'[f].status = "failed"

\* C3: when a fetch of a pair fails, the entry keeps its value and its
\* last-updated timestamp, its last-error and last-attempt timestamp are set,
\* and get answers as before the failure (the stale value, never a failure);
\* a caller of get never receives anything but an entry or absent.
C3_FailureKeepsValue ==
    /\ [][\A f \in 1..MaxCallers :
             Fails(f) =>
                 LET p == fetches[f].pair
                 IN /\ cache'[p].value = cache[p].value
                    /\ cache'[p].updated = cache[p].updated
                    /\ cache'[p].lastError = f
                    /\ cache'[p].lastAttempt = clock'
                    /\ cache'[p].lastAttempt > cache[p].lastAttempt
                    /\ GetOutcome(cache'[p]) = GetOutcome(cache[p])]_vars
    /\ [](\A c \in Callers :
             callers[c].op = "get" =>
                 /\ callers[c].outcome \in {"hit", "absent"}
                 /\ callers[c].outcome = "hit" <=> callers[c].entry.value # NoFetch)

\* A get after a failed refresh returns the stale value with the error marker.
C3_Witness ==
    \E c \in Callers :
        /\ callers[c].op = "get"
        /\ callers[c].outcome = "hit"
        /\ callers[c].entry.lastError # NoFetch
        /\ callers[c].entry.lastAttempt > callers[c].entry.updated

\* C4: once a mutating operation of a pair has succeeded, no read of that pair
\* made after it (the handler's own reload, or any later call) returns the
\* value that was cached when the mutation was applied.
C4_MutationInvalidates ==
    \A m, r \in Callers :
        ( /\ callers[m].op = "mutate"
          /\ callers[m].before # NoFetch
          /\ r >= m
          /\ Reads(r)
          /\ callers[r].pair = callers[m].pair )
        => callers[r].entry.value # callers[m].before

C4_Witness ==
    \E m \in Callers :
        /\ callers[m].op = "mutate"
        /\ callers[m].before # NoFetch
        /\ Done(m)

\* Caller c makes its call op in this step.
Calls(c, op) == callers[c].op = "none" /\ callers'[c].op = op

\* C5: invalidate(host, kind) leaves every other entry (other kinds of the
\* host, every kind of the other hosts) as it was: value, timestamps, error.
C5_InvalidateFrame ==
    [][\A c \in Callers :
          Calls(c, "invalidate") =>
              \A q \in Pairs \ {callers'[c].pair} : cache'[q] = cache[q]]_vars

\* After an invalidation, an entry of another kind of the same host that was
\* cached before it is still there.
C5_Witness ==
    \E c \in Callers :
        /\ callers[c].op = "invalidate"
        /\ \E q \in Pairs :
               /\ q # callers[c].pair
               /\ q[1] = callers[c].pair[1]
               /\ cache[q].value # NoFetch
               /\ cache[q].updated <= callers[c].at

\* C6: invalidate(host, kind) issues no fetch and leaves the entry absent for
\* get; a get of the pair made after the invalidation returns a value only if
\* a fetch of the pair completed successfully after the invalidation.
C6_InvalidateAbsent ==
    /\ [][\A c \in Callers :
             Calls(c, "invalidate") =>
                 /\ fetches' = fetches
                 /\ GetOutcome(cache'[callers'[c].pair]) = "absent"]_vars
    /\ [](\A i, r \in Callers :
             ( /\ callers[i].op = "invalidate"
               /\ r > i
               /\ callers[r].op = "get"
               /\ callers[r].pair = callers[i].pair
               /\ callers[r].outcome = "hit" )
             => callers[r].entry.updated > callers[i].at)

\* An entry that had a value is invalidated and the next get reports absent.
C6_Witness ==
    \E i, r \in Callers :
        /\ callers[i].op = "invalidate"
        /\ r > i
        /\ callers[r].op = "get"
        /\ callers[r].pair = callers[i].pair
        /\ callers[r].outcome = "absent"
        /\ \E f \in 1..Len(fetches) :
               /\ fetches[f].pair = callers[i].pair
               /\ fetches[f].status = "ok"
               /\ fetches[f].doneAt <= callers[i].at

Built == tpc = "done"
NodesWithId(id) == {k \in 1..Len(nodes) : nodes[k].id = id}
\* The connection edges (live or stopped) that leave the device.
ConnectionsOf(id) ==
    {k \in 1..Len(edges) : edges[k].source = id /\ edges[k].style \in {"live", "stopped"}}
IsCached(bridgeName) == \E k \in 1..Len(bridges) : bridges[k].name = bridgeName
PortsOf(bridgeName) ==
    UNION {{bridges[k].ports[i].name : i \in 1..Len(bridges[k].ports)} :
              k \in {j \in 1..Len(bridges) : bridges[j].name = bridgeName}}
\* The guests of the inventory as (node id, interfaces).
Guests ==
    {[id |-> VMId(vms[k].vmid), interfaces |-> vms[k].interfaces] : k \in 1..Len(vms)}
    \cup {[id |-> CTId(containers[k].ctid), interfaces |-> containers[k].interfaces] :
             k \in 1..Len(containers)}
\* The guest has exactly three interfaces, on three different cached bridges.
OnThreeBridges(g) ==
    /\ Len(g.interfaces) = 3
    /\ \A k \in 1..3 : IsCached(g.interfaces[k].bridge)
    /\ Cardinality({g.interfaces[k].bridge : k \in 1..3}) = 3

\* No guest has two nodes in a built topology.
C8_AtMostOneNode == Built => \A g \in Guests : Cardinality(NodesWithId(g.id)) <= 1

\* C8: in every built topology no guest has more than one node, and a guest
\* with interfaces on three different bridges is one node with three
\* connection edges.
C8_OneNodePerGuest ==
    Built =>
        \A g \in Guests :
            /\ Cardinality(NodesWithId(g.id)) <= 1
            /\ OnThreeBridges(g) =>
                   /\ Cardinality(NodesWithId(g.id)) = 1
                   /\ Cardinality(ConnectionsOf(g.id)) = 3

\* A guest on three bridges, one of its ports live and another one gone.
C8_Witness ==
    /\ Built
    /\ \E g \in Guests :
           /\ OnThreeBridges(g)
           /\ \E k \in 1..3 : g.interfaces[k].tap \in PortsOf(g.interfaces[k].bridge)
           /\ \E k \in 1..3 : g.interfaces[k].tap \notin PortsOf(g.interfaces[k].bridge)

\* The interface is configured for a cached bridge that lacks its port.
PortGone(iface) == IsCached(iface.bridge) /\ iface.tap \notin PortsOf(iface.bridge)
HasStoppedEdge(id, iface) ==
    \E k \in 1..Len(edges) :
        /\ edges[k].style = "stopped"
        /\ edges[k].source = id
        /\ edges[k].target = BridgeId(iface.bridge)
        /\ edges[k].sourceHandle = iface.tap

\* C9: in every built topology, for every guest interface configured for a
\* cached bridge whose ports lack the interface's port name, the guest has a
\* node and there is a stopped-connection edge from the guest to that bridge.
C9_StoppedEdgeForGonePort ==
    Built =>
        \A g \in Guests : \A k \in 1..Len(g.interfaces) :
            PortGone(g.interfaces[k]) =>
                /\ NodesWithId(g.id) # {}
                /\ HasStoppedEdge(g.id, g.interfaces[k])

\* A guest already emitted for a live port has another interface whose port is gone.
C9_Witness ==
    /\ Built
    /\ \E g \in Guests : \E k, l \in 1..Len(g.interfaces) :
           /\ PortGone(g.interfaces[k])
           /\ g.interfaces[l].tap \in PortsOf(g.interfaces[l].bridge)
           /\ NodesWithId(g.id) # {}

\* The ports on the cached bridges, as (bridge name, port name).
LivePorts ==
    UNION {{<<bridges[k].name, bridges[k].ports[i].name>> : i \in 1..Len(bridges[k].ports)} :
              k \in 1..Len(bridges)}
\* Both checks of the correlator pass for the port name.
CorrelatesToVM(portName) ==
    /\ Match(portName, TAP) # NoMatch
    /\ \E k \in 1..Len(vms) :
           /\ vms[k].vmid = ParseInt(Match(portName, TAP)[1])
           /\ \E i \in 1..Len(vms[k].interfaces) : vms[k].interfaces[i].tap = portName
\* The builder ties the port to a VM: a live edge from a VM node for it.
BuilderTiesToVM(portName) ==
    \E k \in 1..Len(edges) :
        /\ edges[k].style = "live"
        /\ edges[k].sourceHandle = portName
        /\ HasPrefix(edges[k].source, <<"v", "m", "-">>)
MappingTiesToVM(portName) ==
    /\ getPortMapping(portName, vms, containers) # Null
    /\ getPortMapping(portName, vms, containers).type = "VM"

\* C10: a port name that matches the VM pattern is tied to a VM, by
\* findVMForPort, by the topology builder and by getPortMapping, only if a VM
\* with the parsed id is cached and one of its interfaces carries exactly
\* this port name; otherwise all three tie it to no VM.
C10_CorrelationNeedsInterface ==
    Built =>
        \A bp \in LivePorts :
            Match(bp[2], TAP) # NoMatch =>
                /\ (findVMForPort(bp[2], vms) # Null) <=> CorrelatesToVM(bp[2])
                /\ BuilderTiesToVM(bp[2]) <=> CorrelatesToVM(bp[2])
                /\ MappingTiesToVM(bp[2]) <=> CorrelatesToVM(bp[2])

\* A port of the VM pattern whose VM is cached but has no such interface.
C10_Witness ==
    /\ Built
    /\ \E bp \in LivePorts :
           /\ Match(bp[2], TAP) # NoMatch
           /\ FindVM(vms, ParseInt(Match(bp[2], TAP)[1])) # Null
           /\ ~CorrelatesToVM(bp[2])
           /\ findVMForPort(bp[2], vms) = Null

(***************************************************************************)
(* Claims about the mirror resolver (under SpecMirror)                     *)
(***************************************************************************)
\* The mirrors of the inventory as (bridge index, mirror index).
Mirrors == UNION {{<<b, m>> : m \in 1..Len(bridges[b].mirrors)} : b \in 1..Len(bridges)}
MirrorAt(bm) == bridges[bm[1]].mirrors[bm[2]]
\* The pairs the builder resolves the mirror to: the mirror pass runs with
\* the guests the node pass placed.
Resolved(bm) ==
    ResolveMirror(MirrorAt(bm), bridges[bm[1]],
                  NodePass(bridges, vms, containers).placedVMs,
                  NodePass(bridges, vms, containers).placedCTs)
ResolvedSet(bm) == {<<Resolved(bm)[k].deviceId, Resolved(bm)[k].portName>> : k \in 1..Len(Resolved(bm))}
MirrorEdgesIn(es) == {k \in 1..Len(es) : es[k].style = "mirror"}
\* The device a port name names by its pattern and number alone.
DeviceNamed(name) ==
    IF Match(name, TAP) # NoMatch THEN VMId(ParseInt(Match(name, TAP)[1]))
    ELSE IF Match(name, VETH) # NoMatch THEN CTId(ParseInt(Match(name, VETH)[1]))
    ELSE NoDevice
\* The port names the mirror monitors: the bridge's ports, or the two lists.
Monitored(bm) ==
    IF MirrorAt(bm).select_all
    THEN {bridges[bm[1]].ports[k].name : k \in 1..Len(bridges[bm[1]].ports)}
    ELSE {MirrorAt(bm).select_src_port[k] : k \in 1..Len(MirrorAt(bm).select_src_port)}
         \cup {MirrorAt(bm).select_dst_port[k] : k \in 1..Len(MirrorAt(bm).select_dst_port)}

\* C11: for every mirror, select-all or explicit, no resolved pair and no
\* mirror edge of the built topology has the mirror's output device (the
\* device its output port names) as its source.
C11_NoSelfMirror ==
    Built =>
        /\ \A bm \in Mirrors : \A k \in 1..Len(Resolved(bm)) :
               Resolved(bm)[k].deviceId # DeviceNamed(MirrorAt(bm).output_port)
        /\ \A k \in MirrorEdgesIn(edges) :
               /\ edges[k].source # edges[k].target
               /\ edges[k].source # DeviceNamed(edges[k].targetHandle)

\* A mirror that monitors a port of its own output device and resolves to
\* at least one pair.
C11_Witness ==
    /\ Built
    /\ MirrorEdgesIn(edges) # {}
    /\ \E bm \in Mirrors : \E name \in Monitored(bm) :
           /\ DeviceNamed(name) # NoDevice
           /\ DeviceNamed(name) = DeviceNamed(MirrorAt(bm).output_port)

\* The device the correlator of the specification gives a port name: the
\* guest with the parsed id, if it is cached and one of its interfaces
\* carries exactly this name; NoDevice otherwise.
Carries(guest, name) == \E i \in 1..Len(guest.interfaces) : guest.interfaces[i].tap = name
Correlate(name) ==
    IF Match(name, TAP) # NoMatch
    THEN (IF \E k \in 1..Len(vms) :
                 vms[k].vmid = ParseInt(Match(name, TAP)[1]) /\ Carries(vms[k], name)
          THEN DeviceNamed(name) ELSE NoDevice)
    ELSE IF Match(name, VETH) # NoMatch
    THEN (IF \E k \in 1..Len(containers) :
                 containers[k].ctid = ParseInt(Match(name, VETH)[1]) /\ Carries(containers[k], name)
          THEN DeviceNamed(name) ELSE NoDevice)
    ELSE NoDevice
\* The device of a port name when only the id is looked up.
CorrelateById(name) ==
    IF Match(name, TAP) # NoMatch
    THEN (IF FindVM(vms, ParseInt(Match(name, TAP)[1])) # Null THEN DeviceNamed(name) ELSE NoDevice)
    ELSE IF Match(name, VETH) # NoMatch
    THEN (IF FindCT(containers, ParseInt(Match(name, VETH)[1])) # Null
          THEN DeviceNamed(name) ELSE NoDevice)
    ELSE NoDevice
PortNamesOf(b) == {bridges[b].ports[k].name : k \in 1..Len(bridges[b].ports)}
\* A select-all mirror whose output port is on its bridge.
SelectAllWithOutput(bm) ==
    /\ MirrorAt(bm).select_all
    /\ MirrorAt(bm).output_port \in PortNamesOf(bm[1])

\* With the id looked up only, the select-all resolution is exact.
C12_ExactById ==
    Built =>
        \A bm \in Mirrors :
            (SelectAllWithOutput(bm) /\ CorrelateById(MirrorAt(bm).output_port) # NoDevice) =>
                /\ ResolvedSet(bm) =
                       {<<CorrelateById(n), n>> : n \in
                           {m \in PortNamesOf(bm[1]) :
                               CorrelateById(m) \notin {NoDevice, CorrelateById(MirrorAt(bm).output_port)}}}
                /\ Cardinality(ResolvedSet(bm)) = Len(Resolved(bm))

\* C12: a select-all mirror whose output port correlates to a device
\* resolves to exactly the pairs (device, port) of the ports on its bridge
\* that correlate to a device other than the output device, none repeated.
C12_SelectAllExact ==
    Built =>
        \A bm \in Mirrors :
            (SelectAllWithOutput(bm) /\ Correlate(MirrorAt(bm).output_port) # NoDevice) =>
                /\ ResolvedSet(bm) =
                       {<<Correlate(n), n>> : n \in
                           {m \in PortNamesOf(bm[1]) :
                               Correlate(m) \notin {NoDevice, Correlate(MirrorAt(bm).output_port)}}}
                /\ Cardinality(ResolvedSet(bm)) = Len(Resolved(bm))

\* The scenario of the specification: tap ports tap101i0, tap102i0 and
\* tap103i0, output tap103i0, resolved to (vm-101, tap101i0), (vm-102, tap102i0).
C12_Witness ==
    /\ Built
    /\ \E bm \in Mirrors :
           /\ MirrorAt(bm).select_all
           /\ MirrorAt(bm).output_port = TapName(103, 0)
           /\ PortNamesOf(bm[1]) = {ETH0, TapName(101, 0), TapName(102, 0), TapName(103, 0)}
           /\ ResolvedSet(bm) = {<<VMId(101), TapName(101, 0)>>, <<VMId(102), TapName(102, 0)>>}
           /\ Cardinality(MirrorEdgesIn(edges)) = 2

\* C13: for an explicit mirror, a listed port name that is not among the
\* ports of the mirror's bridge contributes no pair and no mirror edge.
C13_AbsentSourceNoPair ==
    Built =>
        \A bm \in Mirrors :
            ~MirrorAt(bm).select_all =>
                /\ \A k \in 1..Len(Resolved(bm)) : Resolved(bm)[k].portName \in PortNamesOf(bm[1])
                /\ \A k \in MirrorEdgesIn(edges) : edges[k].sourceHandle \in PortNamesOf(bm[1])

\* The scenario of the specification: select_src_port = [tap999i0], no such
\* port on the bridge, an output port that has a device; the load completes
\* with no pair and no mirror edge.
C13_Witness ==
    /\ Built
    /\ MirrorEdgesIn(edges) = {}
    /\ \E bm \in Mirrors :
           /\ ~MirrorAt(bm).select_all
           /\ MirrorAt(bm).select_src_port = <<TapName(999, 0)>>
           /\ MirrorAt(bm).select_dst_port = <<>>
           /\ TapName(999, 0) \notin PortNamesOf(bm[1])
           /\ MirrorAt(bm).output_port \in PortNamesOf(bm[1])
           /\ Correlate(MirrorAt(bm).output_port) # NoDevice
           /\ Resolved(bm) = <<>>

\* The mirror's output port is not set, is not on the mirror's bridge, or
\* correlates to no device.
Dangling(bm) ==
    \/ MirrorAt(bm).output_port \in {Undefined, <<>>}
    \/ MirrorAt(bm).output_port \notin PortNamesOf(bm[1])
    \/ Correlate(MirrorAt(bm).output_port) = NoDevice
EdgesOfMirror(bm) ==
    {k \in MirrorEdgesIn(edges) :
        HasPrefix(edges[k].id, <<"m", "i", "r", "r", "o", "r", "-">> \o MirrorAt(bm).uuid \o <<"-">>)}

\* C14: a mirror whose output port is missing or correlates to no device
\* resolves to no pair and has no mirror edge, and the load still completes
\* with the bridges' nodes.
C14_DanglingMirrorEmpty ==
    Built =>
        /\ \A b \in 1..Len(bridges) : NodesWithId(BridgeId(bridges[b].name)) # {}
        /\ \A bm \in Mirrors :
               Dangling(bm) => Resolved(bm) = <<>> /\ EdgesOfMirror(bm) = {}

\* A mirror without output port, or whose output port names no cached
\* guest, next to live edges of the same topology.
C14_Witness ==
    /\ Built
    /\ \E k \in 1..Len(edges) : edges[k].style = "live"
    /\ \E bm \in Mirrors :
           /\ MirrorAt(bm).output_port = Undefined \/ CorrelateById(MirrorAt(bm).output_port) = NoDevice
           /\ Monitored(bm) # {}
           /\ EdgesOfMirror(bm) = {}

(***************************************************************************)
(* Claims about device-less ports                                          *)
(***************************************************************************)
\* The port name matches neither pattern, or the guest it names is not cached.
DeviceLess(name) == CorrelateById(name) = NoDevice
\* The bridge list without the device-less ports.
RECURSIVE WithDevice(_)
WithDevice(ports) ==
    IF ports = <<>> THEN <<>>
    ELSE (IF DeviceLess(Head(ports).name) THEN <<>> ELSE <<Head(ports)>>) \o WithDevice(Tail(ports))
Stripped == [b \in 1..Len(bridges) |-> [bridges[b] EXCEPT !.ports = WithDevice(@)]]
RECURSIVE GuestNodes(_)
GuestNodes(ns) ==
    IF ns = <<>> THEN <<>>
    ELSE (IF Head(ns).type = "bridgeNode" THEN <<>> ELSE <<Head(ns)>>) \o GuestNodes(Tail(ns))
\* The marker of the port on its bridge's node.
Markers(name) ==
    UNION {{nodes[k].data.ports[i].status :
               i \in {j \in 1..Len(nodes[k].data.ports) : nodes[k].data.ports[j].name = name}} :
              k \in {n \in 1..Len(nodes) : nodes[n].type = "bridgeNode"}}

\* C15: a port on a bridge whose name matches neither pattern, or matches
\* but names a guest that is not cached, is tied to no device by
\* findVMForPort and getPortMapping, has no guest node, is the handle of no
\* edge and is marked 'none'; the load completes, and the guest nodes and
\* the edges are those built without these ports, in both cases alike.
C15_DeviceLessPort ==
    Built =>
        /\ \A bp \in LivePorts :
               DeviceLess(bp[2]) =>
                   /\ findVMForPort(bp[2], vms) = Null
                   /\ getPortMapping(bp[2], vms, containers) = Null
                   /\ DeviceNamed(bp[2]) # NoDevice => NodesWithId(DeviceNamed(bp[2])) = {}
                   /\ \A k \in 1..Len(edges) :
                          /\ edges[k].sourceHandle # bp[2]
                          /\ edges[k].targetHandle \notin {bp[2], HandleIn(bp[2])}
                   /\ Markers(bp[2]) = {"none"}
        /\ edges = BuildTopology(Stripped, vms, containers).edges
        /\ GuestNodes(nodes) = GuestNodes(BuildTopology(Stripped, vms, containers).nodes)

\* Both cases on one bridge: a port of neither pattern and the port of a
\* guest that is not cached, monitored by a mirror that resolves to a pair.
C15_Witness ==
    /\ Built
    /\ MirrorEdgesIn(edges) # {}
    /\ \E bp, bq \in LivePorts :
           /\ bp[1] = bq[1]
           /\ DeviceNamed(bp[2]) = NoDevice
           /\ DeviceNamed(bq[2]) # NoDevice /\ DeviceLess(bq[2])
           /\ \E bm \in Mirrors : {bp[2], bq[2]} \subseteq Monitored(bm)

(***************************************************************************)
(* Claims about tap-name parsing (under SpecParse)                         *)
(***************************************************************************)
\* C16: for every guest id vmid >= 0 and interface number index >= 0,
\* parsing the name "tap" + vmid + "i" + index returns exactly
\* { vmid, interfaceNum: index }.
C16_ParseRoundTrip ==
    parsedTap # NotParsed =>
        /\ formed.name = TAP \o Dec(formed.vmid) \o <<"i">> \o Dec(formed.index)
        /\ parsedTap = [vmid |-> formed.vmid, interfaceNum |-> formed.index]

\* A name with a guest id of several digits, a zero among them, and an
\* interface number of two digits has been parsed.
C16_Witness ==
    /\ parsedTap # NotParsed
    /\ formed.vmid = 1000
    /\ formed.index = 10

(***************************************************************************)
(* Claims about live connections (under SpecTopo)                          *)
(***************************************************************************)
\* The live edge of the port on the bridge, from the device.
HasLiveEdge(id, bridgeName, portName) ==
    \E k \in 1..Len(edges) :
        /\ edges[k].style = "live"
        /\ edges[k].id = LiveEdgeId(portName)
        /\ edges[k].source = id
        /\ edges[k].sourceHandle = portName
        /\ edges[k].target = BridgeId(bridgeName)
        /\ edges[k].targetHandle = HandleIn(portName)

\* C17: in every built topology, every port present on a bridge that
\* correlates to a guest has a live edge from the guest's node to the
\* bridge's node keyed by the port name, both nodes exist, and every live
\* edge is keyed by a port present on the bridge it points to.
C17_LiveEdgePerPresentPort ==
    Built =>
        /\ \A bp \in LivePorts :
               Correlate(bp[2]) # NoDevice =>
                   /\ NodesWithId(Correlate(bp[2])) # {}
                   /\ NodesWithId(BridgeId(bp[1])) # {}
                   /\ HasLiveEdge(Correlate(bp[2]), bp[1], bp[2])
        /\ \A k \in 1..Len(edges) :
               edges[k].style = "live" =>
                   \E bp \in LivePorts :
                       /\ edges[k].target = BridgeId(bp[1])
                       /\ edges[k].sourceHandle = bp[2]

\* A guest has one interface whose port is on a bridge, with its live edge,
\* and another whose port is on no bridge, with no live edge.
C17_Witness ==
    /\ Built
    /\ \E g \in Guests : \E i, j \in 1..Len(g.interfaces) :
           /\ \E bp \in LivePorts :
                  /\ bp[2] = g.interfaces[i].tap
                  /\ Correlate(bp[2]) = g.id
                  /\ HasLiveEdge(g.id, bp[1], bp[2])
           /\ \A bp \in LivePorts : bp[2] # g.interfaces[j].tap
           /\ \A k \in 1..Len(edges) :
                  edges[k].style = "live" => edges[k].sourceHandle # g.interfaces[j].tap

(***************************************************************************)
(* Claims about the rendering of an interface whose port is gone           *)
(* (under SpecTopo)                                                        *)
(***************************************************************************)
\* What a topology shows for the interface: its stopped edges and the
\* entries of its port on the node of its bridge, with their markers.
RenderingOf(topo, iface) ==
    [stopped |-> {topo.edges[k] :
                     k \in {e \in 1..Len(topo.edges) :
                                /\ topo.edges[e].style = "stopped"
                                /\ topo.edges[e].sourceHandle = iface.tap}},
     marker |-> UNION {{topo.nodes[k].data.ports[i].status :
                           i \in {j \in 1..Len(topo.nodes[k].data.ports) :
                                      topo.nodes[k].data.ports[j].name = iface.tap}} :
                          k \in {n \in 1..Len(topo.nodes) :
                                     topo.nodes[n].id = BridgeId(iface.bridge)}}]
\* The inventory with nothing but the status field of one guest changed.
WithVMStatus(v, status) == [vms EXCEPT ![v].status = status]
WithCTStatus(c, status) == [containers EXCEPT ![c].status = status]
Shown == [nodes |-> nodes, edges |-> edges]

\* C18: in every built topology, for every guest interface configured for a
\* cached bridge whose ports lack the interface's port name, the stopped
\* edge and the bridge-side port marker of the interface are the same as in
\* the topology built from the inventory with only that guest's status
\* changed to stopped, unknown or running.
C18_SameRenderingAnyStatus ==
    Built =>
        /\ \A v \in 1..Len(vms), status \in Statuses :
               \A i \in 1..Len(vms[v].interfaces) :
                   PortGone(vms[v].interfaces[i]) =>
                       RenderingOf(Shown, vms[v].interfaces[i])
                           = RenderingOf(BuildTopology(bridges, WithVMStatus(v, status), containers),
                                         vms[v].interfaces[i])
        /\ \A c \in 1..Len(containers), status \in Statuses :
               \A i \in 1..Len(containers[c].interfaces) :
                   PortGone(containers[c].interfaces[i]) =>
                       RenderingOf(Shown, containers[c].interfaces[i])
                           = RenderingOf(BuildTopology(bridges, vms, WithCTStatus(c, status)),
                                         containers[c].interfaces[i])

\* The stopped edges alone do not depend on the status.
C18_SameStoppedEdgeAnyStatus ==
    Built =>
        \A v \in 1..Len(vms), status \in Statuses :
            \A i \in 1..Len(vms[v].interfaces) :
                PortGone(vms[v].interfaces[i]) =>
                    RenderingOf(Shown, vms[v].interfaces[i]).stopped
                        = RenderingOf(BuildTopology(bridges, WithVMStatus(v, status), containers),
                                      vms[v].interfaces[i]).stopped

\* A running guest with one interface, configured for a cached bridge that
\* lacks its port, has been rendered with its stopped edge.
C18_Witness ==
    /\ Built
    /\ \E v \in 1..Len(vms) :
           /\ vms[v].status = "running"
           /\ Len(vms[v].interfaces) = 1
           /\ PortGone(vms[v].interfaces[1])
           /\ HasStoppedEdge(VMId(vms[v].vmid), vms[v].interfaces[1])

(***************************************************************************)
(* Claims about which guests are shown (under SpecTopo)                    *)
(***************************************************************************)
ConfiguredForCached(g) == \E i \in 1..Len(g.interfaces) : IsCached(g.interfaces[i].bridge)

\* C19: in every built topology, every guest with at least one interface
\* configured for a cached bridge has a node, whatever its status and
\* whichever of its interfaces is listed first.
C19_ConfiguredGuestShown ==
    Built => \A g \in Guests : ConfiguredForCached(g) => NodesWithId(g.id) # {}

\* A guest whose first interface is configured for a cached bridge has a node.
C19_ShownWhenFirstCached ==
    Built =>
        \A g \in Guests :
            Len(g.interfaces) > 0 /\ IsCached(g.interfaces[1].bridge) => NodesWithId(g.id) # {}

\* A guest whose first interface is configured for a bridge that is not
\* cached and whose second is configured for a cached one has been loaded.
C19_Witness ==
    /\ Built
    /\ \E g \in Guests :
           /\ Len(g.interfaces) >= 2
           /\ ~IsCached(g.interfaces[1].bridge)
           /\ IsCached(g.interfaces[2].bridge)

(***************************************************************************)
(* Claims about explicit mirrors (under SpecMirror)                        *)
(***************************************************************************)
\* An explicit mirror whose output port is on its bridge and has a device.
ExplicitWithOutput(bm) ==
    /\ ~MirrorAt(bm).select_all
    /\ MirrorAt(bm).output_port \in PortNamesOf(bm[1])
    /\ Correlate(MirrorAt(bm).output_port) # NoDevice
ListedIn(list, name) == \E k \in 1..Len(list) : list[k] = name

\* C20: for an explicit mirror, every resolved pair is a port of the source
\* or the destination selector list with the device it correlates to, never
\* the output device; every port of either list that is on the bridge and
\* correlates to a device other than the output device has its pair; and no
\* pair is repeated, so a port in both lists yields one pair.
C20_ExplicitUnion ==
    Built =>
        \A bm \in Mirrors :
            ExplicitWithOutput(bm) =>
                /\ \A k \in 1..Len(Resolved(bm)) :
                       /\ Resolved(bm)[k].portName \in Monitored(bm)
                       /\ Resolved(bm)[k].deviceId = Correlate(Resolved(bm)[k].portName)
                       /\ Resolved(bm)[k].deviceId # Correlate(MirrorAt(bm).output_port)
                /\ \A n \in Monitored(bm) \cap PortNamesOf(bm[1]) :
                       Correlate(n) \notin {NoDevice, Correlate(MirrorAt(bm).output_port)} =>
                           <<Correlate(n), n>> \in ResolvedSet(bm)
                /\ Cardinality(ResolvedSet(bm)) = Len(Resolved(bm))

\* With the device taken from the guest id in the name alone, the pairs are
\* those of the ports of either list, one pair a port.
C20_UnionById ==
    Built =>
        \A bm \in Mirrors :
            ExplicitWithOutput(bm) =>
                /\ \A k \in 1..Len(Resolved(bm)) :
                       /\ Resolved(bm)[k].portName \in Monitored(bm)
                       /\ Resolved(bm)[k].deviceId = CorrelateById(Resolved(bm)[k].portName)
                       /\ Resolved(bm)[k].deviceId # CorrelateById(MirrorAt(bm).output_port)
                /\ \A n \in Monitored(bm) \cap PortNamesOf(bm[1]) :
                       CorrelateById(n) \notin {NoDevice, CorrelateById(MirrorAt(bm).output_port)} =>
                           <<CorrelateById(n), n>> \in ResolvedSet(bm)
                /\ Cardinality(ResolvedSet(bm)) = Len(Resolved(bm))

\* A port is in the source list and in the destination list of an explicit
\* mirror, and the mirror has one pair and one edge for it.
C20_Witness ==
    /\ Built
    /\ \E bm \in Mirrors : \E n \in Monitored(bm) :
           /\ ExplicitWithOutput(bm)
           /\ ListedIn(MirrorAt(bm).select_src_port, n)
           /\ ListedIn(MirrorAt(bm).select_dst_port, n)
           /\ Cardinality({k \in 1..Len(Resolved(bm)) : Resolved(bm)[k].portName = n}) = 1
           /\ Cardinality({k \in EdgesOfMirror(bm) : edges[k].sourceHandle = n}) = 1

\* Whenever the correlation of live ports needs the interface, C20 holds.
C20_FollowsFromC10 == C10_CorrelationNeedsInterface => C20_ExplicitUnion

(***************************************************************************)
(* Claims about a failed refresh (under SpecRefresh)                       *)
(***************************************************************************)
\* The last refresh of the view has completed, and it failed.
HDRefreshFailed == hdpc = "idle" /\ hdHist.clicked /\ hdHist.failed
TRRefreshFailed == rpc = "idle" /\ trHist.clicked /\ trHist.failed

\* The host detail view keeps its data and shows the error alert.
C21_HostDetailKeepsAndShows ==
    HDRefreshFailed => ~hdLoading /\ hdData = hdHist.before /\ hdError # NoError

\* The topology view keeps its graph.
C21_TopologyKeeps ==
    TRRefreshFailed =>
        /\ ~loading
        /\ nodes = trHist.before.nodes
        /\ edges = trHist.before.edges

\* C21: when a refresh has failed, the view shows the data it showed before
\* the refresh, and an indicator is visible: the host detail view shows its
\* error, and the topology view renders something it did not render before
\* the refresh.
C21_FailedRefreshKeepsAndShows ==
    /\ C21_HostDetailKeepsAndShows
    /\ C21_TopologyKeeps
    /\ TRRefreshFailed => TopologyRendering # trHist.before

\* A cache refresh of the topology view has failed with a graph on display.
C21_Witness ==
    /\ TRRefreshFailed
    /\ tpc = "done"
    /\ nodes # <<>>
    /\ nodes = trHist.before.nodes

(***************************************************************************)
(* Claims about the refreshing indicator of the mirror view                *)
(* (under SpecMirrorView)                                                  *)
(***************************************************************************)
\* The handleRefresh calls whose refreshMirrors request is outstanding.
OutstandingRefreshes == {c \in RefreshCalls : mmCalls[c] = "refresh"}

\* C28: isRefreshing is true whenever a mirrors refresh request issued by
\* handleRefresh is outstanding.
C28_RefreshingWhileOutstanding ==
    OutstandingRefreshes # {} => mmIsRefreshing

\* Refresh has been clicked twice before either request was answered.
C28_Witness ==
    Cardinality(OutstandingRefreshes) = 2 /\ mmIsRefreshing

C22_CompletionRecorded ==
    /\ hdRefreshing <=> hdpc \in {"refresh", "load", "queried"}
    /\ (hdpc = "idle" /\ hdHist.clicked /\ hdHist.failed) => hdError # NoError

C23_GetIsPure ==
    [][\A c \in Callers :
          Calls(c, "get") =>
              /\ cache' = cache
              /\ fetches' = fetches
              /\ clock' = clock
              /\ callers'[c].status = "done"
              /\ callers'[c].entry = cache[callers'[c].pair]
              /\ callers'[c].outcome = GetOutcome(cache[callers'[c].pair])]_vars

\* A get found its entry absent while no fetch of its pair had been issued,
\* and another found its entry while a fetch of its pair was in flight.
C23_Witness ==
    \E c, d \in Callers :
        /\ callers[c].op = "get" /\ callers[c].outcome = "absent"
        /\ \A f \in 1..Len(fetches) : fetches[f].pair # callers[c].pair
        /\ callers[d].op = "get" /\ callers[d].outcome = "hit"

(***************************************************************************)
(* Claims about port records without interfaces (under SpecPorts)          *)
(***************************************************************************)
Hollow(port) == Len(port.interfaces) = 0
HollowPorts ==
    UNION {{bridges[b].ports[k].name : k \in {i \in 1..Len(bridges[b].ports) : Hollow(bridges[b].ports[i])}} :
              b \in 1..Len(bridges)}
RECURSIVE WithInterfaces(_)
WithInterfaces(ports) ==
    IF ports = <<>> THEN <<>>
    ELSE (IF Hollow(Head(ports)) THEN <<>> ELSE <<Head(ports)>>) \o WithInterfaces(Tail(ports))
\* The inventory with the port records that carry no interface left out.
Sound == [b \in 1..Len(bridges) |-> [bridges[b] EXCEPT !.ports = WithInterfaces(@)]]

\* C24: in every built topology a port record with zero interfaces is the
\* handle of no live edge and of no mirror edge, and the guest nodes and the
\* edges are those built from the inventory without such records, so that a
\* guest interface expecting the port is rendered as for a missing port.
C24_HollowPortAbsent ==
    Built =>
        /\ \A k \in 1..Len(edges) :
               edges[k].style \in {"live", "mirror"} => edges[k].sourceHandle \notin HollowPorts
        /\ edges = BuildTopology(Sound, vms, containers).edges
        /\ GuestNodes(nodes) = GuestNodes(BuildTopology(Sound, vms, containers).nodes)

\* The port of VM 101 is on the bridge with no interface, it is the only
\* such port, and the built topology has the live edge of the port.
C24_Witness ==
    /\ Built
    /\ HollowPorts = {TapName(101, 0)}
    /\ \E v \in 1..Len(vms) : vms[v].vmid = 101 /\ Carries(vms[v], TapName(101, 0))
    /\ HasLiveEdge(VMId(101), Br(0), TapName(101, 0))

\* With no port record lacking interfaces the two topologies are the same.
C24_SoundUnchanged ==
    (Built /\ HollowPorts = {}) => edges = BuildTopology(Sound, vms, containers).edges

(***************************************************************************)
(* Claims about host switches in the topology view (under SpecSwitch)      *)
(***************************************************************************)
Settled == selectedHost # NoHost /\ \A c \in LoadCalls : tvCalls[c] = NoHost
BuiltFor(h) == BuildTopology(HostData(h).bridges, HostData(h).vms, HostData(h).containers)

\* C25: once every loadTopology call in flight has finished, the nodes and
\* edges on display are those built from the data of the selected host.
C25_ShowsSelectedHost ==
    Settled =>
        /\ nodes = BuiltFor(selectedHost).nodes
        /\ edges = BuiltFor(selectedHost).edges

\* After a load that succeeded, the display is the graph of one host.
C25_ShowsLastArrived ==
    (Settled /\ tpc = "done") =>
        \E h \in Hosts : nodes = BuiltFor(h).nodes /\ edges = BuiltFor(h).edges

\* Also when the last call to finish succeeded, the display can be the graph
\* of the host that is no longer selected.
C25_ShowsSelectedAfterSuccess ==
    (Settled /\ tpc = "done") => nodes = BuiltFor(selectedHost).nodes

\* The selected host's graph is on display after a switch from the other
\* host, with every call finished.
C25_Witness ==
    /\ Settled
    /\ selectedHost = "hostB"
    /\ tpc = "done"
    /\ nodes = BuiltFor("hostB").nodes
    /\ bridges = HostData("hostB").bridges

\* ------------------------------------------------------------------------
\* Edge endpoints
\* ------------------------------------------------------------------------
NodeIdSet == {nodes[k].id : k \in 1..Len(nodes)}
StoppedEdgesIn(es) == {k \in 1..Len(es) : es[k].style = "stopped"}
LooseEdges == {k \in 1..Len(edges) : edges[k].source \notin NodeIdSet \/ edges[k].target \notin NodeIdSet}

\* C26: in a built topology the source and the target of every edge are ids of
\* nodes of that topology.
C26_EdgesJoinNodes == Built => LooseEdges = {}

\* A built topology with a stopped-guest edge, the kind whose target is named
\* from the guest's configuration.
C26_Witness == Built /\ StoppedEdgesIn(edges) # {} /\ Len(nodes) > 0

\* The source of every edge is a node, and both ends of every live-connection
\* and mirror edge are nodes: a dangling end is the target of a stopped edge.
C26_OnlyStoppedTargetsDangle ==
    Built => \A k \in 1..Len(edges) :
        /\ edges[k].source \in NodeIdSet
        /\ edges[k].style # "stopped" => edges[k].target \in NodeIdSet

\* ------------------------------------------------------------------------
\* Edge ids
\* ------------------------------------------------------------------------
SameId == {p \in (1..Len(edges)) \X (1..Len(edges)) : p[1] < p[2] /\ edges[p[1]].id = edges[p[2]].id}

\* C27: in a built topology the ids of the edges are pairwise distinct.
C27_EdgeIdsDistinct == Built => SameId = {}

\* A built topology with at least two mirror edges.
C27_Witness == Built /\ Cardinality(MirrorEdgesIn(edges)) >= 2

\* Two edges with one id are two mirror edges of one mirror from one device;
\* the ids of the other edges are distinct.
C27_OnlyMirrorIdsRepeat ==
    Built => \A p \in SameId :
        /\ edges[p[1]].style = "mirror" /\ edges[p[2]].style = "mirror"
        /\ edges[p[1]].source = edges[p[2]].source
        /\ edges[p[1]].sourceHandle # edges[p[2]].sourceHandle

(***************************************************************************)
(* PortManagement.tsx: the port list of the selected bridge                *)
(***************************************************************************)
\* One host and one bridge are selected throughout; a port is its name.
PMPortNames == {"eth0", "gre0", "vxlan0"}
MaxPending == 1
Without(list, name) == SelectSeq(list, LAMBDA n : n # name)
Has(list, name) == \E k \in 1..Len(list) : list[k] = name
DropAt(list, k) == [j \in 1..(Len(list) - 1) |-> IF j < k THEN list[j] ELSE list[j + 1]]
\* bridgesApi.list(selectedHost), sent by loadBridges; sel is the selectedBridge
\* the calling render holds.
ListReq(by, sel) == [kind |-> "list", by |-> by, sel |-> sel, names |-> <<>>]
\* The portsApi.get requests of one loadPorts call: one per port of the
\* selected bridge in the bridges the calling render holds.
PortsReq(by, held) == [kind |-> "ports", by |-> by, sel |-> TRUE, names |-> held]
PMQuiet == pmReqs = <<>> /\ pmpc \in {"unmounted", "idle"}
PMMayClick == pmpc = "idle" /\ Len(pmReqs) < MaxPending
Holding(name) == [bridges |-> pmBridges, sel |-> pmSelected, name |-> name]

\* Another client of the host adds or removes a port of the bridge while the
\* view has nothing in flight.
PMHostAdd(n) ==
    /\ PMQuiet
    /\ ~Has(pmServer, n)
    /\ pmServer' = Append(pmServer, n)
    /\ pmLast' = "none"
    /\ UNCHANGED <<pmBridges, pmSelected, pmPorts, pmLoading, pmIsRefreshing, pmSnackbar, pmpc, pmHeld, pmReqs>>
    /\ UNCHANGED notPortView
PMHostRemove(n) ==
    /\ PMQuiet
    /\ Has(pmServer, n)
    /\ pmServer' = Without(pmServer, n)
    /\ pmLast' = "none"
    /\ UNCHANGED <<pmBridges, pmSelected, pmPorts, pmLoading, pmIsRefreshing, pmSnackbar, pmpc, pmHeld, pmReqs>>
    /\ UNCHANGED notPortView

\* The effects after mounting: loadHosts selects the first host, and the effect
\* on selectedHost calls loadBridges.
PMMount ==
    /\ pmpc = "unmounted"
    /\ pmpc' = "idle"
    /\ pmReqs' = Append(pmReqs, ListReq("mount", FALSE))
    /\ UNCHANGED <<pmServer, pmBridges, pmSelected, pmPorts, pmLoading, pmIsRefreshing, pmSnackbar, pmHeld, pmLast>>
    /\ UNCHANGED notPortView
\* loadHosts fails: no host is selected and nothing is loaded.
PMMountFail ==
    /\ pmpc = "unmounted"
    /\ pmpc' = "nohost"
    /\ pmSnackbar' = Snack("Failed to load hosts", "error")
    /\ UNCHANGED <<pmServer, pmBridges, pmSelected, pmPorts, pmLoading, pmIsRefreshing, pmHeld, pmReqs, pmLast>>
    /\ UNCHANGED notPortView

\* loadBridges, after the await: setBridges; when neither the calling render
\* nor the state has a selected bridge, setSelectedBridge, and the effect on
\* selectedBridge calls loadPorts from the render that has the new bridges.
PMListArrive(k) ==
    /\ k \in 1..Len(pmReqs)
    /\ pmReqs[k].kind = "list"
    /\ pmBridges' = pmServer
    /\ pmLast' = pmReqs[k].by
    /\ IF ~pmReqs[k].sel /\ ~pmSelected
       THEN /\ pmSelected' = TRUE
            /\ pmLoading' = TRUE
            /\ pmReqs' = Append(DropAt(pmReqs, k), PortsReq(pmReqs[k].by, pmServer))
       ELSE /\ pmReqs' = DropAt(pmReqs, k)
            /\ UNCHANGED <<pmSelected, pmLoading>>
    /\ UNCHANGED <<pmServer, pmPorts, pmIsRefreshing, pmSnackbar, pmpc, pmHeld>>
    /\ UNCHANGED notPortView
\* loadBridges: the catch.
PMListFail(k) ==
    /\ k \in 1..Len(pmReqs)
    /\ pmReqs[k].kind = "list"
    /\ pmSnackbar' = Snack("Failed to load bridges", "error")
    /\ pmReqs' = DropAt(pmReqs, k)
    /\ pmLast' = "none"
    /\ UNCHANGED <<pmServer, pmBridges, pmSelected, pmPorts, pmLoading, pmIsRefreshing, pmpc, pmHeld>>
    /\ UNCHANGED notPortView
\* loadPorts, after Promise.all: a get of a port the host no longer has is
\* caught and gives null; the nulls are filtered out; finally setLoading(false).
PMPortsArrive(k) ==
    /\ k \in 1..Len(pmReqs)
    /\ pmReqs[k].kind = "ports"
    /\ pmPorts' = SelectSeq(pmReqs[k].names, LAMBDA n : Has(pmServer, n))
    /\ pmLoading' = FALSE
    /\ pmReqs' = DropAt(pmReqs, k)
    /\ UNCHANGED <<pmServer, pmBridges, pmSelected, pmIsRefreshing, pmSnackbar, pmpc, pmHeld, pmLast>>
    /\ UNCHANGED notPortView

\* handleRefresh up to its first await: setIsRefreshing(true), refreshBridges
\* is sent.  The handler keeps the bridges and selectedBridge of its render.
PMRefreshClick ==
    /\ PMMayClick
    /\ pmIsRefreshing' = TRUE
    /\ pmHeld' = Holding("")
    /\ pmpc' = "refresh"
    /\ pmLast' = "none"
    /\ UNCHANGED <<pmServer, pmBridges, pmSelected, pmPorts, pmLoading, pmSnackbar, pmReqs>>
    /\ UNCHANGED notPortView
\* refreshBridges resolves: loadBridges and, with a selected bridge, loadPorts
\* are called, both from the handler's render.
PMRefreshOk ==
    /\ pmpc = "refresh"
    /\ pmpc' = "reload"
    /\ IF pmHeld.sel
       THEN /\ pmLoading' = TRUE
            /\ pmReqs' = pmReqs \o <<ListReq("refresh", TRUE), PortsReq("refresh", pmHeld.bridges)>>
       ELSE /\ pmReqs' = Append(pmReqs, ListReq("refresh", FALSE))
            /\ UNCHANGED pmLoading
    /\ UNCHANGED <<pmServer, pmBridges, pmSelected, pmPorts, pmIsRefreshing, pmSnackbar, pmHeld, pmLast>>
    /\ UNCHANGED notPortView
\* The loads the handler's Promise.all holds: its loadBridges and, with a
\* selected bridge, its loadPorts (not a port load started by the effect).
OwnLoads == {k \in 1..Len(pmReqs) : pmReqs[k].by = "refresh" /\ (pmReqs[k].kind = "list" \/ pmHeld.sel)}
\* Promise.all resolves: the snackbar, finally setIsRefreshing(false).
PMRefreshDone ==
    /\ pmpc = "reload"
    /\ OwnLoads = {}
    /\ pmSnackbar' = Snack("Refreshed successfully", "success")
    /\ pmIsRefreshing' = FALSE
    /\ pmpc' = "idle"
    /\ pmHeld' = NothingHeld
    /\ UNCHANGED <<pmServer, pmBridges, pmSelected, pmPorts, pmLoading, pmReqs, pmLast>>
    /\ UNCHANGED notPortView
\* refreshBridges rejects: the catch, finally setIsRefreshing(false).
PMRefreshFail ==
    /\ pmpc = "refresh"
    /\ pmSnackbar' = Snack("Failed to refresh", "error")
    /\ pmIsRefreshing' = FALSE
    /\ pmpc' = "idle"
    /\ pmHeld' = NothingHeld
    /\ UNCHANGED <<pmServer, pmBridges, pmSelected, pmPorts, pmLoading, pmReqs, pmLast>>
    /\ UNCHANGED notPortView

\* handleCreate up to its await: portsApi.create is sent with the form's name.
PMCreateClick(n) ==
    /\ PMMayClick
    /\ pmSelected
    /\ pmHeld' = Holding(n)
    /\ pmpc' = "create"
    /\ pmLast' = "none"
    /\ UNCHANGED <<pmServer, pmBridges, pmSelected, pmPorts, pmLoading, pmIsRefreshing, pmSnackbar, pmReqs>>
    /\ UNCHANGED notPortView
\* The host adds the port: the snackbar, the dialog closes, loadBridges is
\* called and not awaited.
PMCreateOk ==
    /\ pmpc = "create"
    /\ ~Has(pmServer, pmHeld.name)
    /\ pmServer' = Append(pmServer, pmHeld.name)
    /\ pmSnackbar' = Snack("Port created successfully", "success")
    /\ pmReqs' = Append(pmReqs, ListReq("create", pmHeld.sel))
    /\ pmpc' = "idle"
    /\ pmHeld' = NothingHeld
    /\ UNCHANGED <<pmBridges, pmSelected, pmPorts, pmLoading, pmIsRefreshing, pmLast>>
    /\ UNCHANGED notPortView
PMCreateFail ==
    /\ pmpc = "create"
    /\ pmSnackbar' = Snack("Failed to create port", "error")
    /\ pmpc' = "idle"
    /\ pmHeld' = NothingHeld
    /\ UNCHANGED <<pmServer, pmBridges, pmSelected, pmPorts, pmLoading, pmIsRefreshing, pmReqs, pmLast>>
    /\ UNCHANGED notPortView

\* handleDelete up to its await, for the port of a displayed row.
PMDeleteClick(n) ==
    /\ PMMayClick
    /\ Has(pmPorts, n)
    /\ pmHeld' = Holding(n)
    /\ pmpc' = "delete"
    /\ pmLast' = "none"
    /\ UNCHANGED <<pmServer, pmBridges, pmSelected, pmPorts, pmLoading, pmIsRefreshing, pmSnackbar, pmReqs>>
    /\ UNCHANGED notPortView
\* The host removes the port: the snackbar, loadBridges is called and not awaited.
PMDeleteOk ==
    /\ pmpc = "delete"
    /\ Has(pmServer, pmHeld.name)
    /\ pmServer' = Without(pmServer, pmHeld.name)
    /\ pmSnackbar' = Snack("Port deleted successfully", "success")
    /\ pmReqs' = Append(pmReqs, ListReq("delete", pmHeld.sel))
    /\ pmpc' = "idle"
    /\ pmHeld' = NothingHeld
    /\ UNCHANGED <<pmBridges, pmSelected, pmPorts, pmLoading, pmIsRefreshing, pmLast>>
    /\ UNCHANGED notPortView
PMDeleteFail ==
    /\ pmpc = "delete"
    /\ pmSnackbar' = Snack("Failed to delete port", "error")
    /\ pmpc' = "idle"
    /\ pmHeld' = NothingHeld
    /\ UNCHANGED <<pmServer, pmBridges, pmSelected, pmPorts, pmLoading, pmIsRefreshing, pmReqs, pmLast>>
    /\ UNCHANGED notPortView

\* handleUpdate up to its await, for the port of a displayed row.
PMUpdateClick(n) ==
    /\ PMMayClick
    /\ Has(pmPorts, n)
    /\ pmHeld' = Holding(n)
    /\ pmpc' = "update"
    /\ pmLast' = "none"
    /\ UNCHANGED <<pmServer, pmBridges, pmSelected, pmPorts, pmLoading, pmIsRefreshing, pmSnackbar, pmReqs>>
    /\ UNCHANGED notPortView
\* The update is accepted: the snackbar, loadPorts is called from the
\* handler's render and not awaited.
PMUpdateOk ==
    /\ pmpc = "update"
    /\ Has(pmServer, pmHeld.name)
    /\ pmSnackbar' = Snack("Port updated successfully", "success")
    /\ pmLoading' = TRUE
    /\ pmReqs' = Append(pmReqs, PortsReq("update", pmHeld.bridges))
    /\ pmpc' = "idle"
    /\ pmHeld' = NothingHeld
    /\ UNCHANGED <<pmServer, pmBridges, pmSelected, pmPorts, pmIsRefreshing, pmLast>>
    /\ UNCHANGED notPortView
PMUpdateFail ==
    /\ pmpc = "update"
    /\ pmSnackbar' = Snack("Failed to update port", "error")
    /\ pmpc' = "idle"
    /\ pmHeld' = NothingHeld
    /\ UNCHANGED <<pmServer, pmBridges, pmSelected, pmPorts, pmLoading, pmIsRefreshing, pmReqs, pmLast>>
    /\ UNCHANGED notPortView

NextPortView ==
    \/ \E n \in PMPortNames : PMHostAdd(n)
    \/ \E n \in PMPortNames : PMHostRemove(n)
    \/ PMMount
    \/ PMMountFail
    \/ \E k \in 1..(MaxPending + 2) : PMListArrive(k)
    \/ \E k \in 1..(MaxPending + 2) : PMListFail(k)
    \/ \E k \in 1..(MaxPending + 2) : PMPortsArrive(k)
    \/ PMRefreshClick
    \/ PMRefreshOk
    \/ PMRefreshDone
    \/ PMRefreshFail
    \/ \E n \in PMPortNames : PMCreateClick(n)
    \/ PMCreateOk
    \/ PMCreateFail
    \/ \E n \in PMPortNames : PMDeleteClick(n)
    \/ PMDeleteOk
    \/ PMDeleteFail
    \/ \E n \in PMPortNames : PMUpdateClick(n)
    \/ PMUpdateOk
    \/ PMUpdateFail

InitPortView == InitCache /\ InitTopoIdle /\ InitParseIdle /\ InitViewsIdle

SpecPortView == InitPortView /\ [][NextPortView]_vars

\* ------------------------------------------------------------------------
\* The port list after a reload
\* ------------------------------------------------------------------------
PMSettled == pmpc = "idle" /\ pmReqs = <<>>

\* C29: once handleRefresh, or a successful create or delete of a port, and the
\* loads it started have completed, the displayed port list is the port list
\* of the selected bridge in the bridge list that was just loaded.
C29_ShowsLoadedList ==
    PMSettled /\ pmLast \in {"refresh", "create", "delete"} => pmPorts = pmBridges

\* A refresh has completed with its loads and the bridge has ports.
C29_Witness == PMSettled /\ pmLast = "refresh" /\ Len(pmBridges) > 0

\* The same after the loads of mounting: there the port load is started by the
\* effect, from the render that holds the list just loaded.
C29_MountShowsLoadedList == PMSettled /\ pmLast = "mount" => pmPorts = pmBridges

\* The three operations one by one.
C29_AfterRefresh == PMSettled /\ pmLast = "refresh" => pmPorts = pmBridges
C29_AfterCreate == PMSettled /\ pmLast = "create" => pmPorts = pmBridges
C29_AfterDelete == PMSettled /\ pmLast = "delete" => pmPorts = pmBridges

\* After a refresh every port shown is a port of the list just loaded: what
\* the display lacks is what the host gained.
C29_ShownPortsAreOnTheHost ==
    PMSettled /\ pmLast = "refresh" => \A k \in 1..Len(pmPorts) : Has(pmBridges, pmPorts[k])

(***************************************************************************)
(* CreateMirrorModal: the form of the create-mirror dialog                 *)
(***************************************************************************)
\* The bridges prop.
CMBridges ==
    <<[name |-> Br(0), ports |-> <<TapName(101, 0), TapName(102, 1), ETH0>>],
      [name |-> Br(1), ports |-> <<TapName(103, 0), VethName(101, 0)>>]>>
CMModes == {"manual", "dynamic"}
CMTypedNames == {<<>>, <<"s", "p", "a", "n">>}
CMError(message) == [message |-> message]

\* selectedBridge?.ports.map(p => p.name) || []
PortsOfBridge(bridgeName) ==
    LET found == {k \in 1..Len(CMBridges) : CMBridges[k].name = bridgeName}
    IN IF found = {} THEN <<>> ELSE CMBridges[CHOOSE k \in found : \A j \in found : k <= j].ports
Includes(list, port) == \E k \in 1..Len(list) : list[k] = port

\* The checkboxes of the source list, with every port offered.
SourceOptionsAll(bridgeName, outputPort) == PortsOfBridge(bridgeName)
\* The checkboxes of the source list: availablePorts.filter(port => port !== outputPort).
SourceOptions(bridgeName, outputPort) ==
    SelectSeq(PortsOfBridge(bridgeName), LAMBDA port : port # outputPort)
\* The options of the output select, with every port offered.
OutputOptionsAll(mode, bridgeName, sourcePorts) == PortsOfBridge(bridgeName)
\* The options of the output select:
\* outputPorts.filter(port => mode === 'dynamic' || !sourcePorts.includes(port)).
OutputOptions(mode, bridgeName, sourcePorts) ==
    SelectSeq(PortsOfBridge(bridgeName), LAMBDA port : mode = "dynamic" \/ ~Includes(sourcePorts, port))

\* s.replace(pat, rep) for strings pat and rep: the first occurrence only.
Occurrences(s, pat) == {k \in 1..(Len(s) - Len(pat) + 1) : SubSeq(s, k, k + Len(pat) - 1) = pat}
ReplaceFirst(s, pat, rep) ==
    IF Occurrences(s, pat) = {} THEN s
    ELSE LET k == CHOOSE i \in Occurrences(s, pat) : \A j \in Occurrences(s, pat) : i <= j
         IN SubSeq(s, 1, k - 1) \o rep \o SubSeq(s, k + Len(pat), Len(s))
ShortName(port) == ReplaceFirst(ReplaceFirst(port, TAP, <<>>), <<"i">>, <<"-">>)
\* The effect on [bridgeName, sourcePorts, outputPort, mode]: the generated name.
GeneratedName(mode, bridgeName, sourcePorts, outputPort, mirrorName) ==
    IF bridgeName = <<>> THEN mirrorName
    ELSE IF mode = "dynamic" THEN bridgeName \o <<"-", "m", "i", "r", "r", "o", "r">>
    ELSE IF Len(sourcePorts) > 0 /\ outputPort # <<>>
         THEN bridgeName \o <<"-", "m", "i", "r", "r", "o", "r", "-">> \o ShortName(sourcePorts[1])
              \o <<"-", "t", "o", "-">> \o ShortName(outputPort)
    ELSE <<>>

\* A mode radio button: setMode, setSourcePorts([]).
CMSetMode(m) ==
    /\ cmpc # "closed"
    /\ m # cmMode
    /\ cmMode' = m
    /\ cmSourcePorts' = <<>>
    /\ cmMirrorName' = GeneratedName(m, cmBridgeName, <<>>, cmOutputPort, cmMirrorName)
    /\ UNCHANGED <<cmBridgeName, cmOutputPort, cmLoading, cmError, cmpc, cmSent>>
    /\ UNCHANGED notModal
\* The bridge select: setBridgeName, setSourcePorts([]), setOutputPort('').
CMSetBridge(b) ==
    /\ cmpc # "closed"
    /\ b # cmBridgeName
    /\ cmBridgeName' = b
    /\ cmSourcePorts' = <<>>
    /\ cmOutputPort' = <<>>
    /\ cmMirrorName' = GeneratedName(cmMode, b, <<>>, <<>>, cmMirrorName)
    /\ UNCHANGED <<cmMode, cmLoading, cmError, cmpc, cmSent>>
    /\ UNCHANGED notModal
\* handlePortToggle, from a checkbox of the source list (manual mode only).
CMPortToggle(port) ==
    /\ cmpc # "closed"
    /\ cmMode = "manual"
    /\ Includes(SourceOptions(cmBridgeName, cmOutputPort), port)
    /\ cmSourcePorts' = IF Includes(cmSourcePorts, port)
                        THEN SelectSeq(cmSourcePorts, LAMBDA p : p # port)
                        ELSE Append(cmSourcePorts, port)
    /\ cmMirrorName' = GeneratedName(cmMode, cmBridgeName, cmSourcePorts', cmOutputPort, cmMirrorName)
    /\ UNCHANGED <<cmMode, cmBridgeName, cmOutputPort, cmLoading, cmError, cmpc, cmSent>>
    /\ UNCHANGED notModal
\* The output select (disabled without a bridge): an offered port or
\* 'Select output port', whose value is ''.
CMSetOutput(port) ==
    /\ cmpc # "closed"
    /\ cmBridgeName # <<>>
    /\ port = <<>> \/ Includes(OutputOptions(cmMode, cmBridgeName, cmSourcePorts), port)
    /\ port # cmOutputPort
    /\ cmOutputPort' = port
    /\ cmMirrorName' = GeneratedName(cmMode, cmBridgeName, cmSourcePorts, port, cmMirrorName)
    /\ UNCHANGED <<cmMode, cmBridgeName, cmSourcePorts, cmLoading, cmError, cmpc, cmSent>>
    /\ UNCHANGED notModal
\* The name input.
CMTypeName(name) ==
    /\ cmpc # "closed"
    /\ name # cmMirrorName
    /\ cmMirrorName' = name
    /\ UNCHANGED <<cmMode, cmBridgeName, cmSourcePorts, cmOutputPort, cmLoading, cmError, cmpc, cmSent>>
    /\ UNCHANGED notModal

\* The form can be submitted: the button is enabled and the required fields
\* (bridge, output port, name) have a value, so !outputPort does not happen.
CMMaySubmit ==
    /\ cmpc = "open"
    /\ ~cmLoading
    /\ cmBridgeName # <<>>
    /\ cmOutputPort # <<>>
    /\ cmMirrorName # <<>>
\* handleSubmit, manual mode without a source port.
CMSubmitNoSource ==
    /\ CMMaySubmit
    /\ cmMode = "manual" /\ Len(cmSourcePorts) = 0
    /\ cmError' = CMError("Please select at least one source/destination port")
    /\ cmLoading' = FALSE
    /\ UNCHANGED <<cmMode, cmBridgeName, cmMirrorName, cmSourcePorts, cmOutputPort, cmpc, cmSent>>
    /\ UNCHANGED notModal
\* handleSubmit up to its await: mirrorsApi.create is sent.
CMSubmit ==
    /\ CMMaySubmit
    /\ ~(cmMode = "manual" /\ Len(cmSourcePorts) = 0)
    /\ cmLoading' = TRUE
    /\ cmError' = NoError
    /\ cmSent' = [sent |-> TRUE, bridge_name |-> cmBridgeName, mirror_name |-> cmMirrorName,
                  mode |-> cmMode,
                  source_ports |-> IF cmMode = "manual" THEN cmSourcePorts ELSE Undefined,
                  output_port |-> cmOutputPort]
    /\ cmpc' = "creating"
    /\ UNCHANGED <<cmMode, cmBridgeName, cmMirrorName, cmSourcePorts, cmOutputPort>>
    /\ UNCHANGED notModal
\* The mirror is created: onSuccess closes the dialog; finally setLoading(false).
CMCreateOk ==
    /\ cmpc = "creating"
    /\ cmpc' = "closed"
    /\ cmLoading' = FALSE
    /\ UNCHANGED <<cmMode, cmBridgeName, cmMirrorName, cmSourcePorts, cmOutputPort, cmError, cmSent>>
    /\ UNCHANGED notModal
\* The request fails: the catch, finally setLoading(false).
CMCreateFail ==
    /\ cmpc = "creating"
    /\ cmpc' = "open"
    /\ cmError' = CMError("Failed to create mirror")
    /\ cmLoading' = FALSE
    /\ UNCHANGED <<cmMode, cmBridgeName, cmMirrorName, cmSourcePorts, cmOutputPort, cmSent>>
    /\ UNCHANGED notModal
\* Cancel, the close button or the overlay: onClose.
CMClose ==
    /\ cmpc # "closed"
    /\ cmpc' = "closed"
    /\ UNCHANGED <<cmMode, cmBridgeName, cmMirrorName, cmSourcePorts, cmOutputPort, cmLoading, cmError, cmSent>>
    /\ UNCHANGED notModal

CMAllPorts == UNION {{CMBridges[k].ports[j] : j \in 1..Len(CMBridges[k].ports)} : k \in 1..Len(CMBridges)}
CMBridgeNames == {<<>>} \cup {CMBridges[k].name : k \in 1..Len(CMBridges)}

NextModal ==
    \/ \E m \in CMModes : CMSetMode(m)
    \/ \E b \in CMBridgeNames : CMSetBridge(b)
    \/ \E port \in CMAllPorts : CMPortToggle(port)
    \/ \E port \in CMAllPorts \cup {<<>>} : CMSetOutput(port)
    \/ \E name \in CMTypedNames : CMTypeName(name)
    \/ CMSubmitNoSource
    \/ CMSubmit
    \/ CMCreateOk
    \/ CMCreateFail
    \/ CMClose

InitModal == InitCache /\ InitTopoIdle /\ InitParseIdle /\ InitViewsIdle

SpecModal == InitModal /\ [][NextModal]_vars

\* ------------------------------------------------------------------------
\* Source ports and output port of the dialog
\* ------------------------------------------------------------------------
\* C30: in the create-mirror dialog the selected output port is never one of
\* the selected source ports, whatever the sequence of mode changes, bridge
\* changes, source-port toggles and output-port selections.
C30_OutputNotASource == ~Includes(cmSourcePorts, cmOutputPort)

\* Manual mode with an output port and two source ports selected.
C30_Witness ==
    cmMode = "manual" /\ cmOutputPort # <<>> /\ Len(cmSourcePorts) >= 2 /\ cmpc = "open"

\* The selections are ports of the selected bridge, and no source port is
\* selected twice.
C30_SelectionsOnTheBridge ==
    /\ cmOutputPort # <<>> => Includes(PortsOfBridge(cmBridgeName), cmOutputPort)
    /\ \A k \in 1..Len(cmSourcePorts) :
          /\ Includes(PortsOfBridge(cmBridgeName), cmSourcePorts[k])
          /\ \A j \in 1..Len(cmSourcePorts) : cmSourcePorts[j] = cmSourcePorts[k] => j = k
\* Dynamic mode has no source port selected.
C30_DynamicHasNoSources == cmMode = "dynamic" => cmSourcePorts = <<>>
\* The request body of a manual mirror never lists its output port as a source.
C30_SentOutputNotASource ==
    cmSent # NothingSent /\ cmSent.mode = "manual" => ~Includes(cmSent.source_ports, cmSent.output_port)


====
